---- MODULE Spec2Model ----
(***************************************************************************)
(* Traffic interception and protocol decoding engine of ExtensionCraft:   *)
(* the in-page recorders (AdvancedXHRHook, AdvancedFetchHook,             *)
(* AdvancedWebSocketHook), the hook helpers of code-snippets/dom.ts, the   *)
(* HookManager and the UniversalProtobufParser.                            *)
(*                                                                         *)
(* JavaScript objects are modelled as references into a heap, so that two *)
(* places holding the same object see each other's writes.                *)
(***************************************************************************)
EXTENDS Integers, Sequences, FiniteSets, TLC

\* ------------------------------------------------------------------ bounds

\* Capacities of the three recorders.  The source sets 1000, 1000 and 2000
\* (part_001:110, :462, :759); the model runs them scaled down, the code's
\* comparison against them unchanged.
maxEvents == 2
FetchMaxEvents == 2
WsMaxEvents == 3

\* Number of event objects a behaviour of SpecRecorder creates.
MaxRecords == 5

\* Number of writes the caller of getEvents makes to the objects it was given.
MaxCallerWrites == 1

\* Number of requests a behaviour of SpecNet starts: fetch calls plus send
\* cycles of XMLHttpRequest objects.
MaxRequests == 2

\* Number of HookManager.install() calls that wrap the primitives, and of
\* network operations, in a behaviour of SpecManager.
MaxInstalls == 2
MaxOperations == 3

\* Number of registerProto calls of a behaviour of SpecParser, and the length
\* of the buffers handed to tryParse.
MaxRegistrations == 2
MaxBufferLen == 2

\* Length of the event arrays handed to EventFilter and EventSearch.
MaxQueryEvents == 2

\* Number of events the wrapped WebSockets of a behaviour produce.
MaxWsEvents == 3

\* Capacity of the stored list of HookStorage.  The source sets 10000
\* (part_001:990); the model runs it scaled down.
StorageMaxEvents == 3

\* Number of HookStorage.storeEvents calls of a behaviour of SpecStorage, and
\* how far its clock runs.
MaxStoreCalls == 2
MaxClock == 2

\* Number of hookXHR, hookFetch and hookWebSocket calls, and of calls of the
\* cleanup functions they return, in a behaviour of SpecCleanup.
MaxHooks == 3
MaxCleanupCalls == 3

\* Number of interceptors registered with AdvancedFetchHook, and with
\* AdvancedWebSocketHook.
MaxInterceptors == 2

\* HookListener.bufferSize, 100 in the code: the buffer length that starts a
\* flush at once.
bufferSize == 2

\* Hook messages the content script accepts, and flushes it starts.
MaxAccepted == 3
MaxFlushes == 3

\* Messages handed to MessageQueue.enqueue.
MaxEnqueued == 5

\* Calls of NativeMessagingClient.send.
MaxSends == 3

\* Calls of EventFilter and EventSearch made on one event array.
MaxQueryCalls == 2

\* ------------------------------------------------------------------ state

VARIABLES
    heap,       \* the event objects: heap[h][r] is the object of hook h with reference r
    events,     \* events[h]: the private `events` array of recorder h (references)
    arrivals,   \* history: events handed to recordEvent of h since its last clearEvents
    returned,   \* the array the last getEvents() call handed to its caller
    slots,      \* the fetch calls made and the XMLHttpRequest objects constructed
    interceptors, \* AdvancedFetchHook.interceptors: what each registered one resolves to
    connections, \* AdvancedWebSocketHook.connections: the connection ids in the Map
    connectionIdCounter, \* AdvancedWebSocketHook.connectionIdCounter
    messageInterceptors, \* AdvancedWebSocketHook.messageInterceptors: what each resolves to
    isInstalled, \* HookManager.isInstalled
    wrapDepth,  \* wrapDepth[t]: hook layers around the native primitive in window
    console,    \* the last line HookManager wrote to the console
    parsers,    \* UniversalProtobufParser.parsers, in the Map's order
    protoDefinitions, \* UniversalProtobufParser.protoDefinitions, in the Map's order
    pendingRegs, \* registerProto calls waiting at their await
    registrations, \* registerProto calls made
    registerRejected, \* whether the last registerProto call rejected
    firstRegistered, \* history: the names in the order they were first registered
    registerCalls, \* history: the registerProto calls protobuf.parse accepted, in call order
    lastParse,  \* the last tryParse call: its arguments and its outcome
    queryEvents, \* the event array handed to EventFilter and EventSearch
    lastQuery,  \* the last filter or search call: its arguments and its outcome
    queryCalls, \* filter and search calls made on queryEvents
    hookEvents, \* what the extension's storage holds under 'hook_events'
    storeCalls, \* the HookStorage.storeEvents calls made, each with its position
    now,        \* what Date.now() returns
    assignedIds, \* history: the ids storeEvents has assigned, in the order assigned
    window,     \* window[p]: what the global p holds, the native primitive or a wrapper
    hooks,      \* the hookXHR / hookFetch / hookWebSocket calls made, in call order
    cleanupCalls, \* history: the cleanup functions called, in call order
    eventBuffer, \* HookListener.eventBuffer: the hook events waiting, by their number
    flights,    \* the MessageClient.send calls of flush() not yet settled, each with its batch
    delivered,  \* history: the events the background was handed, in the order handed
    accepted,   \* hook events the message listener has accepted
    flushes,    \* flush() calls that sent a batch
    queue,      \* MessageQueue.queue: the messages waiting, by their number
    processing, \* MessageQueue.processing
    promises,   \* promises[m]: the promise enqueue returned for message m
    sendLog,    \* history: the messages handed to MessageClient.send, each with how it settled
    port,       \* NativeMessagingClient.port: "null" or the Port connectNative returned
    messageQueue, \* NativeMessagingClient.messageQueue: the ids of the requests waiting
    messageIdCounter, \* NativeMessagingClient.messageIdCounter
    sendPromises \* history: the promise of each send() call and the id it was given

recVars == <<heap, events, arrivals, returned>>

netVars == <<slots, interceptors>>

wsVars == <<connections, connectionIdCounter, messageInterceptors>>

mgrVars == <<isInstalled, wrapDepth, console>>

pbVars == <<parsers, protoDefinitions, pendingRegs, registrations,
           registerRejected, firstRegistered, registerCalls, lastParse>>

queryVars == <<queryEvents, lastQuery, queryCalls>>

storVars == <<hookEvents, storeCalls, now, assignedIds>>

domVars == <<window, hooks, cleanupCalls>>

listenerVars == <<eventBuffer, flights, delivered, accepted, flushes>>

queueVars == <<queue, processing, promises, sendLog>>

nativeVars == <<port, messageQueue, messageIdCounter, sendPromises>>

msgVars == <<listenerVars, queueVars, nativeVars>>

vars == <<heap, events, arrivals, returned, slots, interceptors,
          connections, connectionIdCounter, messageInterceptors,
          isInstalled, wrapDepth, console,
          parsers, protoDefinitions, pendingRegs, registrations,
          registerRejected, firstRegistered, registerCalls, lastParse,
          queryEvents, lastQuery, queryCalls,
          hookEvents, storeCalls, now, assignedIds,
          window, hooks, cleanupCalls,
          eventBuffer, flights, delivered, accepted, flushes,
          queue, processing, promises, sendLog,
          port, messageQueue, messageIdCounter, sendPromises>>

\* What the actions of one component leave alone.
outsideRec == <<netVars, wsVars, mgrVars, pbVars, queryVars, storVars, domVars, msgVars>>
outsideNet == <<wsVars, mgrVars, pbVars, queryVars, storVars, domVars, msgVars>>
outsideWs == <<returned, interceptors, mgrVars, pbVars, queryVars, storVars, domVars, msgVars>>
outsideMgr == <<netVars, wsVars, returned, pbVars, queryVars, storVars, domVars, msgVars>>
outsidePb == <<recVars, netVars, wsVars, mgrVars, queryVars, storVars, domVars, msgVars>>
outsideQuery == <<recVars, netVars, wsVars, mgrVars, pbVars, storVars, domVars, msgVars>>
outsideStor == <<recVars, netVars, wsVars, mgrVars, pbVars, queryVars, domVars, msgVars>>
outsideListener == <<recVars, netVars, wsVars, mgrVars, pbVars, queryVars, storVars,
                     domVars, queueVars, nativeVars>>
outsideQueue == <<recVars, netVars, wsVars, mgrVars, pbVars, queryVars, storVars,
                  domVars, listenerVars, nativeVars>>
outsideNative == <<recVars, netVars, wsVars, mgrVars, pbVars, queryVars, storVars,
                   domVars, listenerVars, queueVars>>
outsideDom == <<recVars, netVars, wsVars, mgrVars, pbVars, queryVars, storVars, msgVars>>

\* The globals the helpers of code-snippets/dom.ts replace.
Primitives == {"XMLHttpRequest", "fetch", "WebSocket"}

\* What a global holds before any hook: the browser's own primitive.  A
\* wrapper is named by the number of the hook call that made it.
Native == 0

Recorders == {"xhr", "fetch", "ws"}

NoReturn == [hook |-> "none", arr |-> <<>>]

\* ------------------------------------------------------------------ recorders

\* AdvancedXHRHook.recordEvent: push, then shift once when over maxEvents.
XhrRecordEventOffByOne(evs, e) ==
    LET pushed == Append(evs, e)
    IN  IF Len(pushed) >= maxEvents THEN Tail(pushed) ELSE pushed

XhrRecordEvent(evs, e) ==
    LET pushed == Append(evs, e)
    IN  IF Len(pushed) > maxEvents THEN Tail(pushed) ELSE pushed

\* A recorder that turns the new event away when it is full.
FetchRecordEventFullRejects(evs, e) ==
    IF Len(evs) >= FetchMaxEvents THEN evs ELSE Append(evs, e)

\* AdvancedFetchHook.recordEvent
FetchRecordEvent(evs, e) ==
    LET pushed == Append(evs, e)
    IN  IF Len(pushed) > FetchMaxEvents THEN Tail(pushed) ELSE pushed

\* A recorder that makes room by dropping the newest of the events it holds.
WsRecordEventEvictsNewest(evs, e) ==
    IF Len(evs) >= WsMaxEvents THEN Append(SubSeq(evs, 1, Len(evs) - 1), e)
    ELSE Append(evs, e)

\* AdvancedWebSocketHook.recordEvent
WsRecordEvent(evs, e) ==
    LET pushed == Append(evs, e)
    IN  IF Len(pushed) > WsMaxEvents THEN Tail(pushed) ELSE pushed

Capacity(h) ==
    CASE h = "xhr"   -> maxEvents
      [] h = "fetch" -> FetchMaxEvents
      [] h = "ws"    -> WsMaxEvents

\* A log kept in the order the event objects were made, which is the order
\* the requests were started in.
recordEventInSendOrder(h, evs, e) ==
    LET placed == SelectSeq(evs, LAMBDA r : r < e) \o <<e>> \o SelectSeq(evs, LAMBDA r : r >= e)
    IN  IF Len(placed) > Capacity(h) THEN Tail(placed) ELSE placed

recordEvent(h, evs, e) ==
    CASE h = "xhr"   -> XhrRecordEvent(evs, e)
      [] h = "fetch" -> FetchRecordEvent(evs, e)
      [] h = "ws"    -> WsRecordEvent(evs, e)

\* getEvents(): [...this.events], a new array holding the same event objects.
getEvents(h) == [hook |-> h, arr |-> events[h]]

\* The values of the objects an array of references of recorder h holds.
Deref(h, arr) == [i \in 1..Len(arr) |-> heap[h][arr[i]]]

\* The last k elements of s (all of s when it is shorter).
LastK(s, k) ==
    IF Len(s) <= k THEN s ELSE SubSeq(s, Len(s) - k + 1, Len(s))

\* ------------------------------------------------------------------ SpecRecorder
\* The recorders driven directly: recordEvent with a fresh event object,
\* clearEvents, getEvents, and what the caller of getEvents does with the
\* array it got.

RecorderEvent(h) == [kind |-> h, url |-> "/a"]

CallerWrites ==
    Cardinality({hr \in {<<h, r>> : h \in Recorders, r \in 1..MaxRecords} :
                    /\ hr[2] <= Len(heap[hr[1]])
                    /\ heap[hr[1]][hr[2]].url = "/changed"})

\* The three recorders share no state; a behaviour exercises one of them.
OthersUntouched(h) == \A g \in Recorders \ {h} : heap[g] = <<>>

RecordEventCall(h) ==
    /\ OthersUntouched(h)
    /\ Len(heap[h]) < MaxRecords
    /\ heap' = [heap EXCEPT ![h] = Append(@, RecorderEvent(h))]
    /\ events' = [events EXCEPT ![h] = recordEvent(h, @, Len(heap[h]) + 1)]
    /\ arrivals' = [arrivals EXCEPT ![h] = Append(@, Len(heap[h]) + 1)]
    /\ UNCHANGED <<returned, outsideRec>>

ClearEvents(h) ==
    /\ events[h] # <<>>
    /\ events' = [events EXCEPT ![h] = <<>>]
    /\ arrivals' = [arrivals EXCEPT ![h] = <<>>]
    /\ UNCHANGED <<heap, returned, outsideRec>>

GetEventsCall(h) ==
    /\ returned' = getEvents(h)
    /\ UNCHANGED <<heap, events, arrivals, outsideRec>>

\* The caller drops the first element of the array it was given.
CallerShiftsArray ==
    /\ returned.arr # <<>>
    /\ returned' = [returned EXCEPT !.arr = Tail(@)]
    /\ UNCHANGED <<heap, events, arrivals, outsideRec>>

\* The caller assigns a field of the first event object of the array.
CallerWritesEvent ==
    /\ returned.arr # <<>>
    /\ CallerWrites < MaxCallerWrites
    /\ heap' = [heap EXCEPT ![returned.hook][returned.arr[1]].url = "/changed"]
    /\ UNCHANGED <<events, arrivals, returned, outsideRec>>

\* The components a specification does not exercise stay as constructed.
RecIdle ==
    /\ heap = [h \in Recorders |-> <<>>]
    /\ events = [h \in Recorders |-> <<>>]
    /\ arrivals = [h \in Recorders |-> <<>>]
    /\ returned = NoReturn

NetIdle ==
    /\ slots = <<>>
    /\ interceptors = <<>>
    /\ connections = {}
    /\ connectionIdCounter = 0
    /\ messageInterceptors = <<>>

MgrIdle ==
    /\ isInstalled = FALSE
    /\ wrapDepth = [t \in Recorders |-> 0]
    /\ console = ""

PbIdle ==
    /\ parsers = <<>>
    /\ protoDefinitions = <<>>
    /\ pendingRegs = <<>>
    /\ registrations = 0
    /\ registerRejected = FALSE
    /\ firstRegistered = <<>>
    /\ registerCalls = <<>>
    /\ lastParse = [buffer |-> [type |-> "ArrayBuffer", bytes |-> <<>>],
                    domain |-> <<>>,
                    outcome |-> [kind |-> "none", success |-> FALSE, data |-> <<>>,
                                 messageType |-> "", protoName |-> <<>>]]

QueryIdle ==
    /\ queryEvents = <<>>
    /\ lastQuery = [op |-> "none"]
    /\ queryCalls = 0

MsgIdle ==
    /\ eventBuffer = <<>>
    /\ flights = <<>>
    /\ delivered = <<>>
    /\ accepted = 0
    /\ flushes = 0
    /\ queue = <<>>
    /\ processing = FALSE
    /\ promises = <<>>
    /\ sendLog = <<>>
    /\ port = "null"
    /\ messageQueue = <<>>
    /\ messageIdCounter = 0
    /\ sendPromises = <<>>

StorIdle ==
    /\ MsgIdle
    /\ hookEvents = <<>>
    /\ storeCalls = <<>>
    /\ now = 1
    /\ assignedIds = <<>>
    /\ window = [p \in Primitives |-> Native]
    /\ hooks = <<>>
    /\ cleanupCalls = <<>>

InitRecorder == RecIdle /\ NetIdle /\ MgrIdle /\ PbIdle /\ QueryIdle /\ StorIdle

NextRecorder ==
    \/ \E h \in Recorders : RecordEventCall(h)
    \/ \E h \in Recorders : ClearEvents(h)
    \/ \E h \in Recorders : GetEventsCall(h)
    \/ CallerShiftsArray
    \/ CallerWritesEvent

SpecRecorder == InitRecorder /\ [][NextRecorder]_vars

\* ------------------------------------------------------------------ values

\* JavaScript values, tagged with their type.
Str(x) == [t |-> "string", v |-> x]
Obj(text) == [t |-> "object", v |-> text]
Bytes(x) == [t |-> "bytes", v |-> x]
HeaderMap(ctype) == [t |-> "headers", v |-> ctype]
Null == [t |-> "null", v |-> ""]
Undefined == [t |-> "undefined", v |-> ""]

Unset == "unset"
NoRequest == [url |-> "none", method |-> "none", body |-> "none"]
NoResponse == [status |-> "none", ctype |-> "none", body |-> "none"]

\* What the page passes to fetch(input, init) or to open(method, url) and send(data).
Requests ==
    { [url |-> "/a", method |-> "none", body |-> "none"],
      [url |-> "/b", method |-> "POST", body |-> "{\"q\":1}"] }

\* What the network answers.
RespJson    == [status |-> "200", ctype |-> "application/json", body |-> "{\"a\":1}"]
RespBadJson == [status |-> "200", ctype |-> "application/json", body |-> "oops"]
RespText    == [status |-> "404", ctype |-> "text/plain", body |-> "oops"]
RespBinary  == [status |-> "200", ctype |-> "application/octet-stream", body |-> "oops"]
\* An XMLHttpRequest that failed on the network: readyState 4, status 0, no body.
RespXhrError == [status |-> "0", ctype |-> "", body |-> ""]

FetchResponses == {RespJson, RespBadJson, RespText, RespBinary}
XhrResponses == {RespJson, RespXhrError}

\* What the original fetch rejects with.
FetchErrors == {"TypeError: Failed to fetch", "AbortError"}

\* JSON.parse: the texts that are JSON parse to an object, the others throw.
JsonTexts == {"{\"a\":1}", "{\"q\":1}"}
IsJson(text) == text \in JsonTexts
JsonParse(text) == Obj(text)

\* text.trim().startsWith('{') || text.trim().startsWith('[')
LooksLikeJson(text) == text \in JsonTexts

\* init?.method || 'GET'
MethodOf(r) == IF r.method = "none" THEN "GET" ELSE r.method

\* parseRequestBody of both Advanced hooks: null for no body, JSON.parse of a
\* string when it parses, the string itself otherwise.
parseRequestBody(data) ==
    IF data = "none" THEN Null
    ELSE IF IsJson(data) THEN JsonParse(data) ELSE Str(data)

\* AdvancedXHRHook.parseResponseHeaders of getAllResponseHeaders()
parseResponseHeaders(resp) ==
    HeaderMap(resp.ctype)

\* AdvancedXHRHook.parseResponseBody(responseText, responseType)
parseResponseBody(text, rtype) ==
    IF rtype = "json" \/ LooksLikeJson(text)
    THEN IF IsJson(text) THEN JsonParse(text) ELSE Str(text)
    ELSE Str(text)

\* The fetch wrapper's copy of response.headers.
FetchResponseHeaders(resp) == HeaderMap(resp.ctype)

\* What awaiting the duplicate's body gives in AdvancedFetchHook: json() for
\* application/json, text() for text/*, arrayBuffer() otherwise.  json() of a
\* text that is not JSON rejects.
Ok(v) == [ok |-> TRUE, val |-> v, err |-> ""]
Err(e) == [ok |-> FALSE, val |-> Undefined, err |-> e]

AdvancedReadBody(resp) ==
    IF resp.ctype = "application/json"
         THEN IF IsJson(resp.body) THEN Ok(JsonParse(resp.body))
              ELSE Err("SyntaxError")
         ELSE IF resp.ctype = "text/plain" THEN Ok(Str(resp.body))
         ELSE Ok(Bytes(resp.body))

\* The same in hookFetch; for the other types it tries json() and then, in
\* the catch, text() of the same duplicate, whose body json() has consumed.
HookReadBody(resp) ==
    IF resp.ctype = "application/json"
         THEN IF IsJson(resp.body) THEN Ok(JsonParse(resp.body))
              ELSE Err("SyntaxError")
         ELSE IF resp.ctype = "text/plain" THEN Ok(Str(resp.body))
         ELSE IF IsJson(resp.body) THEN Ok(JsonParse(resp.body))
              ELSE Err("TypeError: body used")

\* new Response(JSON.stringify({ intercepted: true }), { status: 200, ... })
MockResponse ==
    [status |-> "200", ctype |-> "application/json", body |-> "{\"intercepted\":true}"]

Resolved(resp) == [kind |-> "resolved", resp |-> resp, err |-> ""]
Rejected(err) == [kind |-> "rejected", resp |-> NoResponse, err |-> err]
Pending == [kind |-> "pending", resp |-> NoResponse, err |-> ""]

\* window.postMessage({source, type, data}): data is copied when posted.
Message(type, data, error) == [type |-> type, data |-> data, error |-> error]

\* ------------------------------------------------------------------ SpecNet
\* Fetch calls through the wrapper AdvancedFetchHook.install() leaves in
\* window.fetch ("advanced"), through the one hookFetch leaves there
\* ("hook"), and XMLHttpRequest objects made by the constructor
\* AdvancedXHRHook.install() leaves in window.XMLHttpRequest ("xhr").

NewEvent == [url |-> Unset, method |-> Unset, requestBody |-> Undefined,
             status |-> Unset, responseHeaders |-> Undefined,
             responseBody |-> Undefined]

\* The event object a new XMLHttpRequest gets when n were made before it.
XhrEventShared(n) == 1

XhrEventOf(n) == n + 1

Slot(kind) ==
    [kind |-> kind,
     st |-> "new",
     req |-> NoRequest,     \* the arguments of the caller
     origArgs |-> NoRequest, \* the arguments the original primitive was called with
     origCalls |-> 0,       \* how often the original fetch / send was called
     orig |-> Pending,      \* how the original fetch settled
     outcome |-> Pending,   \* what the caller of the wrapped fetch observes
     resp |-> NoResponse,   \* the response of the current request
     ev |-> 0,              \* the wrapper's event object
     idx |-> 0,             \* the interceptor being awaited
     wrappers |-> 0,        \* hook layers in xhr.onreadystatechange
     cycles |-> 0,          \* send calls made on the XMLHttpRequest or the WebSocket
     recs |-> 0,            \* recordEvent calls made for the current request
     posted |-> <<>>,       \* messages posted for the current request
     cb |-> <<>>,           \* calls of the hookFetch callback
     cbThrew |-> FALSE,
     readFailed |-> FALSE,
     id |-> 0,              \* connectionId of the wrapped WebSocket
     threw |-> FALSE,       \* whether a call of the wrapped send threw
     errored |-> FALSE]     \* whether the socket's error event fired

\* Requests started so far, an XMLHttpRequest not yet sent counting as one.
RECURSIVE Reserved(_)
Reserved(ss) ==
    IF ss = <<>> THEN 0
    ELSE (IF Head(ss).origCalls = 0 THEN 1 ELSE Head(ss).origCalls) + Reserved(Tail(ss))

RECURSIVE RecordTimes(_, _, _, _)
RecordTimes(h, evs, e, k) ==
    IF k = 0 THEN evs ELSE RecordTimes(h, recordEvent(h, evs, e), e, k - 1)

RECURSIVE AppendTimes(_, _, _)
AppendTimes(s, e, k) == IF k = 0 THEN s ELSE AppendTimes(Append(s, e), e, k - 1)

\* ---- AdvancedFetchHook

\* window.fetch(input, init) up to its first await.
AdvancedFetchCall(r) ==
    /\ Reserved(slots) < MaxRequests
    /\ LET ref == Len(heap["fetch"]) + 1
           e == [NewEvent EXCEPT !.url = r.url, !.method = MethodOf(r),
                                 !.requestBody = parseRequestBody(r.body)]
           s == [Slot("advanced") EXCEPT !.req = r, !.ev = ref]
       IN  /\ heap' = [heap EXCEPT !["fetch"] = Append(@, e)]
           /\ slots' = Append(slots,
                 IF interceptors = <<>>
                 THEN [s EXCEPT !.st = "awaitOrig", !.origCalls = 1, !.origArgs = r]
                 ELSE [s EXCEPT !.st = "intercept", !.idx = 1])
    /\ UNCHANGED <<events, arrivals, returned, interceptors>>
    /\ UNCHANGED outsideNet

\* A loop over the interceptors without its break.
InterceptorSettlesNoBreak(i) ==
    /\ slots[i].st = "intercept"
    /\ LET s == slots[i]
       IN  slots' = [slots EXCEPT ![i] =
              IF s.idx < Len(interceptors)
              THEN [s EXCEPT !.idx = s.idx + 1]
              ELSE IF \E j \in 1..s.idx : interceptors[j]
                   THEN [s EXCEPT !.st = "done", !.outcome = Resolved(MockResponse)]
                   ELSE [s EXCEPT !.st = "awaitOrig", !.origCalls = s.origCalls + 1,
                                  !.origArgs = s.req]]
    /\ UNCHANGED <<heap, events, arrivals, returned, interceptors>>
    /\ UNCHANGED outsideNet

\* await interceptor(event) resumes.
InterceptorSettles(i) ==
    /\ slots[i].st = "intercept"
    /\ LET s == slots[i]
       IN  slots' = [slots EXCEPT ![i] =
              IF interceptors[s.idx]
              THEN [s EXCEPT !.st = "done", !.outcome = Resolved(MockResponse)]
              ELSE IF s.idx < Len(interceptors)
                   THEN [s EXCEPT !.idx = s.idx + 1]
                   ELSE [s EXCEPT !.st = "awaitOrig", !.origCalls = s.origCalls + 1,
                                  !.origArgs = s.req]]
    /\ UNCHANGED <<heap, events, arrivals, returned, interceptors>>
    /\ UNCHANGED outsideNet

addInterceptor(b) ==
    /\ Len(interceptors) < MaxInterceptors
    /\ interceptors' = Append(interceptors, b)
    /\ UNCHANGED <<heap, events, arrivals, returned, slots>>
    /\ UNCHANGED outsideNet

\* await OriginalFetch resumes with a response: clone, copy the headers, start
\* reading the duplicate's body.
AdvancedOrigResolves(i, resp) ==
    /\ slots[i].kind = "advanced"
    /\ slots[i].st = "awaitOrig"
    /\ slots' = [slots EXCEPT ![i].st = "readBody", ![i].resp = resp,
                              ![i].orig = Resolved(resp)]
    /\ UNCHANGED <<heap, events, arrivals, returned, interceptors>>
    /\ UNCHANGED outsideNet

\* await OriginalFetch throws: the catch posts fetch-error and rethrows.
AdvancedOrigRejects(i, err) ==
    /\ slots[i].kind = "advanced"
    /\ slots[i].st = "awaitOrig"
    /\ LET s == slots[i]
       IN  slots' = [slots EXCEPT ![i] =
              [s EXCEPT !.st = "done", !.orig = Rejected(err),
                        !.outcome = Rejected(err),
                        !.posted = Append(@, Message("fetch-error",
                                                      heap["fetch"][s.ev], err))]]
    /\ UNCHANGED <<heap, events, arrivals, returned, interceptors>>
    /\ UNCHANGED outsideNet

\* await clonedResponse.json() / text() / arrayBuffer() resumes: the event is
\* completed, recorded and notified and the response returned; when the await
\* throws, the same catch posts fetch-error and rethrows.
AdvancedBodyRead(i) ==
    /\ slots[i].kind = "advanced"
    /\ slots[i].st = "readBody"
    /\ LET s == slots[i]
           got == AdvancedReadBody(s.resp)
           e == [heap["fetch"][s.ev] EXCEPT
                    !.status = s.resp.status,
                    !.responseHeaders = FetchResponseHeaders(s.resp),
                    !.responseBody = got.val]
       IN  IF got.ok
           THEN /\ heap' = [heap EXCEPT !["fetch"][s.ev] = e]
                /\ events' = [events EXCEPT !["fetch"] = recordEvent("fetch", @, s.ev)]
                /\ arrivals' = [arrivals EXCEPT !["fetch"] = Append(@, s.ev)]
                /\ slots' = [slots EXCEPT ![i] =
                      [s EXCEPT !.st = "done", !.outcome = Resolved(s.resp),
                                !.recs = s.recs + 1,
                                !.posted = Append(@, Message("fetch-event", e, ""))]]
           ELSE /\ slots' = [slots EXCEPT ![i] =
                      [s EXCEPT !.st = "done", !.outcome = Rejected(got.err),
                                !.readFailed = TRUE,
                                !.posted = Append(@, Message("fetch-error",
                                                      heap["fetch"][s.ev], got.err))]]
                /\ UNCHANGED <<heap, events, arrivals>>
    /\ UNCHANGED <<returned, interceptors>>
    /\ UNCHANGED outsideNet

\* ---- hookFetch (code-snippets/dom.ts)

\* window.fetch(input, init) up to await originalFetch.
HookFetchCall(r) ==
    /\ Reserved(slots) < MaxRequests
    /\ slots' = Append(slots,
          [Slot("hook") EXCEPT !.req = r, !.st = "awaitOrig",
                               !.origCalls = 1, !.origArgs = r])
    /\ UNCHANGED <<heap, events, arrivals, returned, interceptors>>
    /\ UNCHANGED outsideNet

\* await originalFetch resumes with a response: clone, start the detached
\* async block, which runs up to its first await, and return the response.
HookOrigResolves(i, resp) ==
    /\ slots[i].kind = "hook"
    /\ slots[i].st = "awaitOrig"
    /\ slots' = [slots EXCEPT ![i].st = "sideRead", ![i].resp = resp,
                              ![i].orig = Resolved(resp),
                              ![i].outcome = Resolved(resp)]
    /\ UNCHANGED <<heap, events, arrivals, returned, interceptors>>
    /\ UNCHANGED outsideNet

\* await originalFetch throws: callback(url, null, requestData, method), then
\* throw error.  A callback that throws leaves the catch block with its own
\* exception.
HookOrigRejects(i, err, cbThrows) ==
    /\ slots[i].kind = "hook"
    /\ slots[i].st = "awaitOrig"
    /\ LET s == slots[i]
           call == [url |-> s.req.url, responseData |-> Null,
                    requestData |-> s.req.body, method |-> MethodOf(s.req)]
       IN  slots' = [slots EXCEPT ![i] =
              [s EXCEPT !.st = "done", !.orig = Rejected(err),
                        !.cb = Append(@, call),
                        !.cbThrew = cbThrows,
                        !.outcome = IF cbThrows THEN Rejected("CallbackError")
                                    ELSE Rejected(err)]]
    /\ UNCHANGED <<heap, events, arrivals, returned, interceptors>>
    /\ UNCHANGED outsideNet

\* The detached block resumes after reading the duplicate's body: it calls the
\* callback; whatever it or the callback throws is caught and logged.
HookSideRead(i, cbThrows) ==
    /\ slots[i].kind = "hook"
    /\ slots[i].st = "sideRead"
    /\ LET s == slots[i]
           got == HookReadBody(s.resp)
           call == [url |-> s.req.url, responseData |-> got.val,
                    requestData |-> s.req.body, method |-> MethodOf(s.req)]
       IN  slots' = [slots EXCEPT ![i] =
              IF got.ok
              THEN [s EXCEPT !.st = "done", !.cb = Append(@, call),
                             !.cbThrew = cbThrows]
              ELSE [s EXCEPT !.st = "done", !.readFailed = TRUE]]
    /\ UNCHANGED <<heap, events, arrivals, returned, interceptors>>
    /\ UNCHANGED outsideNet

\* ---- AdvancedXHRHook

\* new XMLHttpRequest(): the hook makes the real object and one event object.
XhrNew ==
    /\ Reserved(slots) < MaxRequests
    /\ heap' = [heap EXCEPT !["xhr"] = Append(@, NewEvent)]
    /\ slots' = Append(slots,
          [Slot("xhr") EXCEPT !.st = "unsent",
                              !.ev = XhrEventOf(Len(heap["xhr"]))])
    /\ UNCHANGED <<events, arrivals, returned, interceptors>>
    /\ UNCHANGED outsideNet

\* xhr.open(method, url): the event takes the method and the url; the
\* original open ends a request that is in flight without completing it.
XhrOpen(i, r) ==
    /\ slots[i].kind = "xhr"
    /\ slots[i].cycles = 0 \/ Reserved(slots) < MaxRequests
    /\ heap' = [heap EXCEPT !["xhr"][slots[i].ev].url = r.url,
                            !["xhr"][slots[i].ev].method = MethodOf(r)]
    /\ slots' = [slots EXCEPT ![i].st = "opened", ![i].req = r]
    /\ UNCHANGED <<events, arrivals, returned, interceptors>>
    /\ UNCHANGED outsideNet

\* The page assigns xhr.onreadystatechange before it sends: the assignment
\* replaces whatever the property held.
XhrSetHandler(i) ==
    /\ slots[i].kind = "xhr"
    /\ slots[i].st = "opened"
    /\ slots[i].wrappers > 0
    /\ slots' = [slots EXCEPT ![i].wrappers = 0]
    /\ UNCHANGED <<heap, events, arrivals, returned, interceptors>>
    /\ UNCHANGED outsideNet

\* xhr.send(data) on an opened object: the event takes the parsed body, the
\* hook wraps the current onreadystatechange, the original send starts the
\* request.
XhrSend(i) ==
    /\ slots[i].kind = "xhr"
    /\ slots[i].st = "opened"
    /\ slots[i].cycles = 0 \/ Reserved(slots) < MaxRequests
    /\ heap' = [heap EXCEPT
          !["xhr"][slots[i].ev].requestBody = parseRequestBody(slots[i].req.body)]
    /\ slots' = [slots EXCEPT ![i] =
          [@ EXCEPT !.st = "sent", !.wrappers = @ + 1, !.cycles = @ + 1,
                    !.origCalls = @ + 1, !.origArgs = slots[i].req,
                    !.recs = 0, !.posted = <<>>,
                    !.resp = NoResponse]]
    /\ UNCHANGED <<events, arrivals, returned, interceptors>>
    /\ UNCHANGED outsideNet

\* readystatechange with readyState 4: every hook layer in onreadystatechange
\* completes the event, records it and notifies it, outermost first.  The
\* page leaves xhr.responseType at its default, '', so xhr.responseText reads.
XhrComplete(i, resp) ==
    /\ slots[i].kind = "xhr"
    /\ slots[i].st = "sent"
    /\ LET s == slots[i]
           e == [heap["xhr"][s.ev] EXCEPT
                    !.status = resp.status,
                    !.responseHeaders = parseResponseHeaders(resp),
                    !.responseBody = parseResponseBody(resp.body, "")]
           n == s.wrappers
       IN  /\ heap' = [heap EXCEPT !["xhr"][s.ev] = IF n = 0 THEN @ ELSE e]
           /\ events' = [events EXCEPT !["xhr"] = RecordTimes("xhr", @, s.ev, n)]
           /\ arrivals' = [arrivals EXCEPT !["xhr"] = AppendTimes(@, s.ev, n)]
           /\ slots' = [slots EXCEPT ![i] =
                 [s EXCEPT !.st = "done", !.resp = resp, !.recs = s.recs + n,
                           !.posted = AppendTimes(@, Message("xhr-event", e, ""), n)]]
    /\ UNCHANGED <<returned, interceptors>>
    /\ UNCHANGED outsideNet

\* The page after the hooks were installed, once each.
InitNet ==
    /\ RecIdle /\ NetIdle /\ PbIdle /\ QueryIdle /\ StorIdle
    /\ isInstalled = TRUE
    /\ wrapDepth = [t \in Recorders |-> 1]
    /\ console = "All hooks installed successfully"

NextNet ==
    \/ \E r \in Requests : AdvancedFetchCall(r)
    \/ \E i \in 1..Len(slots), resp \in FetchResponses : AdvancedOrigResolves(i, resp)
    \/ \E i \in 1..Len(slots), err \in FetchErrors : AdvancedOrigRejects(i, err)
    \/ \E i \in 1..Len(slots) : AdvancedBodyRead(i)
    \/ \E r \in Requests : HookFetchCall(r)
    \/ \E i \in 1..Len(slots), resp \in FetchResponses : HookOrigResolves(i, resp)
    \/ \E i \in 1..Len(slots), err \in FetchErrors, t \in BOOLEAN : HookOrigRejects(i, err, t)
    \/ \E i \in 1..Len(slots), t \in BOOLEAN : HookSideRead(i, t)
    \/ XhrNew
    \/ \E i \in 1..Len(slots), r \in Requests : XhrOpen(i, r)
    \/ \E i \in 1..Len(slots) : XhrSetHandler(i)
    \/ \E i \in 1..Len(slots) : XhrSend(i)
    \/ \E i \in 1..Len(slots), resp \in XhrResponses : XhrComplete(i, resp)

SpecNet == InitNet /\ [][NextNet]_vars

\* ---- AdvancedWebSocketHook

\* What the page hands to ws.send(data) and what a message event carries.
WsPayloads ==
    { [type |-> "string", text |-> "{\"a\":1}"],
      [type |-> "ArrayBuffer", text |-> "plain"],
      [type |-> "Blob", text |-> "plain"] }

WsUrls == {"ws://a"}

\* typeof data === 'string' ? data : new TextDecoder().decode(data), which
\* throws a TypeError for anything that is not a buffer.
DecodeThrows(data) == data.type = "Blob"

\* JSON.parse(raw), the raw text kept when it throws.
WsMessageOf(raw) == IF IsJson(raw) THEN JsonParse(raw) ELSE Str(raw)

WebSocketEvent(url, type, data) ==
    [url |-> url, type |-> type,
     message |-> IF data.type = "none" THEN Undefined ELSE WsMessageOf(data.text),
     raw |-> IF data.type = "none" THEN Undefined ELSE Str(data.text)]

NoPayload == [type |-> "none", text |-> ""]

\* Events the wrapped WebSockets have produced.
RECURSIVE WsProduced(_)
WsProduced(ss) ==
    IF ss = <<>> THEN 0
    ELSE (IF Head(ss).kind = "ws" THEN Head(ss).recs ELSE 0) + WsProduced(Tail(ss))

\* self.recordEvent(event); self.notifyEvent(event) for a new event object of
\* the connection in slot i.
WsRecord(i, type, data, slot) ==
    /\ WsProduced(slots) < MaxWsEvents
    /\ LET ref == Len(heap["ws"]) + 1
        e == WebSocketEvent(slots[i].req.url, type, data)
       IN  /\ heap' = [heap EXCEPT !["ws"] = Append(@, e)]
           /\ events' = [events EXCEPT !["ws"] = recordEvent("ws", @, ref)]
           /\ arrivals' = [arrivals EXCEPT !["ws"] = Append(@, ref)]
           /\ slots' = [slots EXCEPT ![i] =
                 [slot EXCEPT !.recs = @ + 1,
                              !.posted = Append(@, Message("ws-event", e, ""))]]

\* new WebSocket(url): the hook makes the real socket, takes the next
\* connection id and enters the socket in the Map.
WsNew(url) ==
    /\ Reserved(slots) < MaxRequests
    /\ slots' = Append(slots,
          [Slot("ws") EXCEPT !.st = "connecting", !.id = connectionIdCounter,
                             !.req = [NoRequest EXCEPT !.url = url]])
    /\ connections' = connections \cup {connectionIdCounter}
    /\ connectionIdCounter' = connectionIdCounter + 1
    /\ UNCHANGED <<heap, events, arrivals, messageInterceptors>>
    /\ UNCHANGED outsideWs

\* The socket's open event.
WsOpen(i) ==
    /\ slots[i].kind = "ws"
    /\ slots[i].st = "connecting"
    /\ WsRecord(i, "open", NoPayload, [slots[i] EXCEPT !.st = "open"])
    /\ UNCHANGED <<connections, connectionIdCounter, messageInterceptors>>
    /\ UNCHANGED outsideWs

\* ws.send(data) on an open socket.  The interceptors are started by
\* forEach(async ...), so none of them has set shouldBlock when it is read:
\* the event is recorded and notified and the original send called.  Decoding
\* a payload that is neither a string nor a buffer throws before any of that.
WsSend(i, data) ==
    /\ slots[i].kind = "ws"
    /\ slots[i].st = "open"
    /\ slots[i].cycles < MaxWsEvents
    /\ IF DecodeThrows(data)
       THEN /\ slots' = [slots EXCEPT ![i].threw = TRUE, ![i].cycles = @ + 1]
            /\ UNCHANGED <<heap, events, arrivals>>
       ELSE WsRecord(i, "send", data,
                     [slots[i] EXCEPT !.origCalls = @ + 1, !.origArgs = data,
                                      !.cycles = @ + 1])
    /\ UNCHANGED <<connections, connectionIdCounter, messageInterceptors>>
    /\ UNCHANGED outsideWs

\* The socket's message event.  The listener throws on a payload it cannot
\* decode, which ends the listener and nothing else.
WsMessage(i, data) ==
    /\ slots[i].kind = "ws"
    /\ slots[i].st = "open"
    /\ IF DecodeThrows(data)
       THEN UNCHANGED <<heap, events, arrivals, slots>>
       ELSE WsRecord(i, "message", data, slots[i])
    /\ UNCHANGED <<connections, connectionIdCounter, messageInterceptors>>
    /\ UNCHANGED outsideWs

\* The socket's error event.
WsError(i) ==
    /\ slots[i].kind = "ws"
    /\ slots[i].st \in {"connecting", "open"}
    /\ ~slots[i].errored
    /\ WsRecord(i, "error", NoPayload, [slots[i] EXCEPT !.errored = TRUE])
    /\ UNCHANGED <<connections, connectionIdCounter, messageInterceptors>>
    /\ UNCHANGED outsideWs

\* The socket's close event: the connection leaves the Map.
WsClose(i) ==
    /\ slots[i].kind = "ws"
    /\ slots[i].st \in {"connecting", "open"}
    /\ WsRecord(i, "close", NoPayload, [slots[i] EXCEPT !.st = "closed"])
    /\ connections' = connections \ {slots[i].id}
    /\ UNCHANGED <<connectionIdCounter, messageInterceptors>>
    /\ UNCHANGED outsideWs

\* addMessageInterceptor(interceptor), the interceptor one that resolves to b
addMessageInterceptor(b) ==
    /\ Len(messageInterceptors) < MaxInterceptors
    /\ messageInterceptors' = Append(messageInterceptors, b)
    /\ UNCHANGED <<heap, events, arrivals, slots, connections, connectionIdCounter>>
    /\ UNCHANGED outsideWs

\* AdvancedWebSocketHook.getActiveConnections(): this.connections.size
getActiveConnections == Cardinality(connections)

\* ------------------------------------------------------------------ SpecTraffic
\* The three recorders under traffic, starting with their logs empty or
\* filled to capacity by earlier traffic.

OldEvent(h) ==
    IF h = "ws" THEN WebSocketEvent("ws://old", "open", NoPayload)
    ELSE [NewEvent EXCEPT !.url = "/old"]

\* The recorders after n earlier events each.
Filled(n) ==
    /\ heap = [h \in Recorders |-> [j \in 1..n[h] |-> OldEvent(h)]]
    /\ events = [h \in Recorders |-> [j \in 1..n[h] |-> j]]
    /\ arrivals = [h \in Recorders |-> [j \in 1..n[h] |-> j]]

InitTraffic ==
    /\ \/ Filled([h \in Recorders |-> 0])
       \/ Filled([h \in Recorders |-> Capacity(h)])
    /\ returned = NoReturn
    /\ NetIdle /\ PbIdle /\ QueryIdle /\ StorIdle
    /\ isInstalled = TRUE
    /\ wrapDepth = [t \in Recorders |-> 1]
    /\ console = "All hooks installed successfully"

\* The three hooks share no state; a behaviour drives one of them.
OnlyTraffic(kind) == \A i \in 1..Len(slots) : slots[i].kind = kind

NextTraffic ==
    \/ \E r \in Requests : OnlyTraffic("advanced") /\ AdvancedFetchCall(r)
    \/ \E i \in 1..Len(slots), resp \in FetchResponses : AdvancedOrigResolves(i, resp)
    \/ \E i \in 1..Len(slots), err \in FetchErrors : AdvancedOrigRejects(i, err)
    \/ \E i \in 1..Len(slots) : AdvancedBodyRead(i)
    \/ OnlyTraffic("xhr") /\ XhrNew
    \/ \E i \in 1..Len(slots), r \in Requests : XhrOpen(i, r)
    \/ \E i \in 1..Len(slots) : XhrSetHandler(i)
    \/ \E i \in 1..Len(slots) : XhrSend(i)
    \/ \E i \in 1..Len(slots), resp \in XhrResponses : XhrComplete(i, resp)
    \/ \E url \in WsUrls : OnlyTraffic("ws") /\ WsNew(url)
    \/ \E i \in 1..Len(slots) : WsOpen(i)
    \/ \E i \in 1..Len(slots), data \in WsPayloads : WsSend(i, data)
    \/ \E i \in 1..Len(slots), data \in WsPayloads : WsMessage(i, data)
    \/ \E i \in 1..Len(slots) : WsError(i)
    \/ \E i \in 1..Len(slots) : WsClose(i)

SpecTraffic == InitTraffic /\ [][NextTraffic]_vars

\* ------------------------------------------------------------------ SpecIntercept
\* AdvancedFetchHook and AdvancedWebSocketHook with interceptors registered
\* while the traffic goes on.  The two hooks share no state; a behaviour
\* drives one of them.

FetchSide == messageInterceptors = <<>> /\ OnlyTraffic("advanced")
SocketSide == interceptors = <<>> /\ OnlyTraffic("ws")

\* The payloads the wrapped send can decode.
Decodable == {data \in WsPayloads : ~DecodeThrows(data)}

InitIntercept == InitNet

NextIntercept ==
    \/ \E b \in BOOLEAN : FetchSide /\ addInterceptor(b)
    \/ \E r \in Requests : FetchSide /\ AdvancedFetchCall(r)
    \/ \E i \in 1..Len(slots) : InterceptorSettles(i)
    \/ \E i \in 1..Len(slots), resp \in {RespJson, RespBadJson} : AdvancedOrigResolves(i, resp)
    \/ \E i \in 1..Len(slots), err \in FetchErrors : AdvancedOrigRejects(i, err)
    \/ \E i \in 1..Len(slots) : AdvancedBodyRead(i)
    \/ \E b \in BOOLEAN : SocketSide /\ addMessageInterceptor(b)
    \/ \E url \in WsUrls : SocketSide /\ WsNew(url)
    \/ \E i \in 1..Len(slots) : WsOpen(i)
    \/ \E i \in 1..Len(slots), data \in Decodable : WsSend(i, data)
    \/ \E i \in 1..Len(slots) : WsClose(i)

SpecIntercept == InitIntercept /\ [][NextIntercept]_vars

\* ------------------------------------------------------------------ SpecManager
\* HookManager: install(), uninstall(), clearAllEvents(), and network
\* operations of the page through whatever window.XMLHttpRequest, window.fetch
\* and window.WebSocket hold at the time.

\* HookManager.install() without the isInstalled guard.
InstallUnguarded ==
    /\ wrapDepth["xhr"] < MaxInstalls
    /\ wrapDepth' = [t \in Recorders |-> wrapDepth[t] + 1]
    /\ isInstalled' = TRUE
    /\ console' = "All hooks installed successfully"
    /\ UNCHANGED <<heap, events, arrivals>>
    /\ UNCHANGED outsideMgr

\* HookManager.install(): returns after a warning when isInstalled; otherwise
\* each hook's install() captures what window holds and puts its wrapper
\* around it.
Install ==
    /\ IF isInstalled
       THEN /\ console' = "Hooks already installed"
            /\ UNCHANGED <<isInstalled, wrapDepth>>
       ELSE /\ wrapDepth["xhr"] < MaxInstalls
            /\ wrapDepth' = [t \in Recorders |-> wrapDepth[t] + 1]
            /\ isInstalled' = TRUE
            /\ console' = "All hooks installed successfully"
    /\ UNCHANGED <<heap, events, arrivals>>
    /\ UNCHANGED outsideMgr

\* HookManager.uninstall(): a warning, and the flag is cleared; window keeps
\* the wrappers.
Uninstall ==
    /\ console' = "To uninstall hooks, please reload the page"
    /\ isInstalled' = FALSE
    /\ UNCHANGED <<wrapDepth, heap, events, arrivals>>
    /\ UNCHANGED outsideMgr

\* HookManager.clearAllEvents()
ClearAllEvents ==
    /\ \E t \in Recorders : events[t] # <<>>
    /\ events' = [t \in Recorders |-> <<>>]
    /\ arrivals' = [t \in Recorders |-> <<>>]
    /\ UNCHANGED <<heap, isInstalled, wrapDepth, console>>
    /\ UNCHANGED outsideMgr

\* The objects k layers create for one operation, after n earlier objects.
NewObjects(t, k) == [j \in 1..k |-> RecorderEvent(t)]

RECURSIVE RecordAll(_, _, _)
RecordAll(t, evs, refs) ==
    IF refs = <<>> THEN evs
    ELSE RecordAll(t, recordEvent(t, evs, Head(refs)), Tail(refs))

\* One request or message of the page through window's primitive of
\* transport t, run to its completion: every hook layer around the native
\* primitive makes its own event object and records it.
Operation(t) ==
    /\ Len(heap["xhr"]) + Len(heap["fetch"]) + Len(heap["ws"]) + wrapDepth[t]
          <= MaxOperations
    /\ wrapDepth[t] > 0
    /\ LET k == wrapDepth[t]
           refs == [j \in 1..k |-> Len(heap[t]) + j]
       IN  /\ heap' = [heap EXCEPT ![t] = @ \o NewObjects(t, k)]
           /\ events' = [events EXCEPT ![t] = RecordAll(t, @, refs)]
           /\ arrivals' = [arrivals EXCEPT ![t] = @ \o refs]
    /\ UNCHANGED <<isInstalled, wrapDepth, console>>
    /\ UNCHANGED outsideMgr

InitManager == RecIdle /\ NetIdle /\ MgrIdle /\ PbIdle /\ QueryIdle /\ StorIdle

NextManager ==
    \/ Install
    \/ Uninstall
    \/ ClearAllEvents
    \/ \E t \in Recorders : Operation(t)

SpecManager == InitManager /\ [][NextManager]_vars

\* ------------------------------------------------------------------ text
\* Strings as the code reads them: character by character.

\* The characters of the strings the events, options and queries are made of.
Chars(str) ==
    CASE str = "" -> <<>>
      [] str = "source" -> <<"s", "o", "u", "r", "c", "e">>
      [] str = "url" -> <<"u", "r", "l">>
      [] str = "method" -> <<"m", "e", "t", "h", "o", "d">>
      [] str = "status" -> <<"s", "t", "a", "t", "u", "s">>
      [] str = "timestamp" -> <<"t", "i", "m", "e", "s", "t", "a", "m", "p">>
      [] str = "data" -> <<"d", "a", "t", "a">>
      [] str = "headers" -> <<"h", "e", "a", "d", "e", "r", "s">>
      [] str = "responseHeaders" -> <<"r", "e", "s", "p", "o", "n", "s", "e", "H", "e", "a", "d", "e", "r", "s">>
      [] str = "content-type" -> <<"c", "o", "n", "t", "e", "n", "t", "-", "t", "y", "p", "e">>
      [] str = "Content-Type" -> <<"C", "o", "n", "t", "e", "n", "t", "-", "T", "y", "p", "e">>
      [] str = "a" -> <<"a">>
      [] str = "b" -> <<"b">>
      [] str = "xhr" -> <<"x", "h", "r">>
      [] str = "fetch" -> <<"f", "e", "t", "c", "h">>
      [] str = "websocket" -> <<"w", "e", "b", "s", "o", "c", "k", "e", "t">>
      [] str = "/a" -> <<"/", "a">>
      [] str = "/api/B" -> <<"/", "a", "p", "i", "/", "B">>
      [] str = "POST" -> <<"P", "O", "S", "T">>
      [] str = "post" -> <<"p", "o", "s", "t">>
      [] str = "GET" -> <<"G", "E", "T">>
      [] str = "application/json" -> <<"a", "p", "p", "l", "i", "c", "a", "t", "i", "o", "n", "/", "j", "s", "o", "n">>
      [] str = "text/plain" -> <<"t", "e", "x", "t", "/", "p", "l", "a", "i", "n">>
      [] str = "json" -> <<"j", "s", "o", "n">>
      [] str = "null" -> <<"n", "u", "l", "l">>
      [] str = " " -> <<" ">>
      [] str = "xhr post" -> <<"x", "h", "r", " ", "p", "o", "s", "t">>
      [] str = "  post " -> <<" ", " ", "p", "o", "s", "t", " ">>
      [] str = "API" -> <<"A", "P", "I">>
      [] str = "^/a" -> <<"^", "/", "a">>
      [] str = "(" -> <<"(">>
      [] str = "zzz" -> <<"z", "z", "z">>
      [] str = "a.b" -> <<"a", ".", "b">>
      [] str = "data.a" -> <<"d", "a", "t", "a", ".", "a">>
      [] str = "hello" -> <<"h", "e", "l", "l", "o">>
      [] str = "HELLO" -> <<"H", "E", "L", "L", "O">>
      [] str = "hel" -> <<"h", "e", "l">>
      [] str = "get true" -> <<"g", "e", "t", " ", "t", "r", "u", "e">>
      [] str = "hello zzz" -> <<"h", "e", "l", "l", "o", " ", "z", "z", "z">>
      [] str = "HELLO 200" -> <<"H", "E", "L", "L", "O", " ", "2", "0", "0">>
      [] str = "x.x.method" -> <<"x", ".", "x", ".", "m", "e", "t", "h", "o", "d">>
      [] str = "{\"a\":\"hellp\"}" -> <<"{", "\"", "a", "\"", ":", "\"", "h", "e", "l", "l", "p", "\"", "}">>
      [] str = "true" -> <<"t", "r", "u", "e">>
      [] str = "false" -> <<"f", "a", "l", "s", "e">>
      [] str = "x" -> <<"x">>
      [] str = "undefined" -> <<"u", "n", "d", "e", "f", "i", "n", "e", "d">>
      [] str = "[object Object]" -> <<"[", "o", "b", "j", "e", "c", "t", " ", "O", "b", "j", "e", "c", "t", "]">>

LowerLetters == <<"a", "b", "c", "d", "e", "f", "g", "h", "i", "j", "k", "l", "m",
                  "n", "o", "p", "q", "r", "s", "t", "u", "v", "w", "x", "y", "z">>
UpperLetters == <<"A", "B", "C", "D", "E", "F", "G", "H", "I", "J", "K", "L", "M",
                  "N", "O", "P", "Q", "R", "S", "T", "U", "V", "W", "X", "Y", "Z">>

UpperChar(c) ==
    IF \E i \in 1..26 : LowerLetters[i] = c
    THEN UpperLetters[CHOOSE i \in 1..26 : LowerLetters[i] = c] ELSE c

\* String.prototype.toUpperCase
toUpperCase(str) == [i \in 1..Len(str) |-> UpperChar(str[i])]

\* String.prototype.startsWith
startsWith(str, sub) ==
    /\ Len(sub) <= Len(str)
    /\ \A j \in 1..Len(sub) : str[j] = sub[j]

DigitChars == <<"0", "1", "2", "3", "4", "5", "6", "7", "8", "9">>

\* String(n) of a non-negative integer
RECURSIVE NumberChars(_)
NumberChars(n) ==
    IF n < 10 THEN <<DigitChars[n + 1]>>
    ELSE NumberChars(n \div 10) \o <<DigitChars[(n % 10) + 1]>>

\* Array.prototype.join(sep) of character sequences
RECURSIVE join(_, _)
join(parts, sep) ==
    IF parts = <<>> THEN <<>>
    ELSE IF Len(parts) = 1 THEN parts[1]
    ELSE parts[1] \o sep \o join(Tail(parts), sep)

\* ------------------------------------------------------------------ protobuf
\* ProtobufParser and UniversalProtobufParser.  A .proto text is a sequence of
\* lines and a line a sequence of items: a package statement, a message
\* declaration with its fields, a comment that mentions a message, another
\* statement, or text protobuf.parse rejects.  A buffer is an ArrayBuffer or a
\* Uint8Array (decodeMessage declares both) with its sequence of bytes.

PackageItem(p) == [k |-> "package", name |-> p, fields |-> {}]
MessageItem(m, fields) == [k |-> "message", name |-> m, fields |-> fields]
CommentItem(m) == [k |-> "comment", name |-> m, fields |-> {}]
OtherItem == [k |-> "other", name |-> "", fields |-> {}]
GarbageItem == [k |-> "garbage", name |-> "", fields |-> {}]

Field(no, type) == [no |-> no, type |-> type]

\* syntax = "proto3"; package p; message M { int32 a = 1; }   (one line)
ProtoDemo == << <<OtherItem, PackageItem("p"), MessageItem("M", {Field(1, "int32")})>> >>
\* package q;  /  message S { string s = 2; }  /  message N { int32 n = 1; }
ProtoShop ==
    << <<PackageItem("q")>>,
       <<MessageItem("S", {Field(2, "string")})>>,
       <<MessageItem("N", {Field(1, "int32")})>> >>
\* // message Ghost is gone  /  message K { string k = 1; }
ProtoComment ==
    << <<CommentItem("Ghost")>>, <<MessageItem("K", {Field(1, "string")})>> >>
\* syntax = "proto3";
ProtoEmpty == << <<OtherItem>> >>
\* not a .proto text
ProtoBad == << <<GarbageItem>> >>

ProtoContents == {ProtoDemo, ProtoShop, ProtoComment, ProtoEmpty, ProtoBad}

\* Schema names and domain hints, as their characters.
SchemaNames == { <<"d", "e", "m", "o">>, <<"S", "h", "o", "p">> }
DomainHints == { <<>>, <<"D", "E", "M">>, <<"o">>, <<"x">> }

\* The bytes buffers are made of: 8 = the tag of field 1 as a varint, 15 = the
\* tag of field 1 with wire type 7, and 1 = a value or a length (as a tag,
\* field 0 with 8 fixed bytes).
ByteValues == {1, 8, 15}

RECURSIVE SeqsUpTo(_, _)
SeqsUpTo(S, n) ==
    IF n = 0 THEN {<<>>}
    ELSE LET shorter == SeqsUpTo(S, n - 1)
         IN  shorter \cup {Append(s, x) : s \in {t \in shorter : Len(t) = n - 1}, x \in S}

BufferTypes == {"ArrayBuffer", "Uint8Array"}

Buffers == [type : BufferTypes, bytes : SeqsUpTo(ByteValues, MaxBufferLen)]

EmptyBuffer == [type |-> "ArrayBuffer", bytes |-> <<>>]

\* String.prototype.toLowerCase, character by character.
LowerChar(c) ==
    IF \E i \in 1..26 : UpperLetters[i] = c
    THEN LowerLetters[CHOOSE i \in 1..26 : UpperLetters[i] = c] ELSE c

toLowerCase(str) == [i \in 1..Len(str) |-> LowerChar(str[i])]

\* String.prototype.includes
includes(str, sub) ==
    \E i \in 0..(Len(str) - Len(sub)) :
        \A j \in 1..Len(sub) : str[i + j] = sub[j]

\* ---- protobuf.js, as ProtobufParser uses it

\* protobuf.parse(content).root: the message types the text declares, each
\* under the package stated before it; a text it cannot parse throws.
RECURSIVE Flatten(_)
Flatten(lines) ==
    IF lines = <<>> THEN <<>> ELSE Head(lines) \o Flatten(Tail(lines))

Parses(content) == \A i \in 1..Len(Flatten(content)) : Flatten(content)[i].k # "garbage"

RECURSIVE DeclaredFrom(_, _)
DeclaredFrom(items, pkg) ==
    IF items = <<>> THEN {}
    ELSE LET it == Head(items)
         IN  IF it.k = "package" THEN DeclaredFrom(Tail(items), it.name)
             ELSE IF it.k = "message"
                  THEN {[name |-> IF pkg = "" THEN it.name ELSE pkg \o "." \o it.name,
                         fields |-> it.fields]}
                       \cup DeclaredFrom(Tail(items), pkg)
                  ELSE DeclaredFrom(Tail(items), pkg)

loadProto(content) == DeclaredFrom(Flatten(content), "")

\* Reader.uint32 at position pos (1-based): the value and the next position,
\* or an error when the buffer ends inside the varint.  A varint of at most
\* four bytes stays below 2^28, so the 32-bit wrap of the reader never acts
\* on the buffers considered here.
RECURSIVE ReadVarint(_, _, _, _)
ReadVarint(buf, pos, shift, acc) ==
    IF pos > Len(buf) THEN [ok |-> FALSE, val |-> 0, pos |-> pos]
    ELSE LET b == buf[pos]
             v == acc + (b % 128) * (2 ^ shift)
         IN  IF b < 128 THEN [ok |-> TRUE, val |-> v, pos |-> pos + 1]
             ELSE ReadVarint(buf, pos + 1, shift + 7, v)

uint32(buf, pos) == ReadVarint(buf, pos, 0, 0)

\* Reader.skip(length)
skip(buf, pos, length) ==
    IF pos + length > Len(buf) + 1 THEN [ok |-> FALSE, val |-> 0, pos |-> pos]
    ELSE [ok |-> TRUE, val |-> 0, pos |-> pos + length]

\* Reader.skipType(wireType); a group runs to its end-group tag.
RECURSIVE skipType(_, _, _)
RECURSIVE SkipGroup(_, _)
skipType(buf, pos, wireType) ==
    CASE wireType = 0 -> uint32(buf, pos)
      [] wireType = 1 -> skip(buf, pos, 8)
      [] wireType = 2 -> LET n == uint32(buf, pos)
                         IN  IF n.ok THEN skip(buf, n.pos, n.val) ELSE n
      [] wireType = 3 -> SkipGroup(buf, pos)
      [] wireType = 5 -> skip(buf, pos, 4)
      [] OTHER -> [ok |-> FALSE, val |-> 0, pos |-> pos]

SkipGroup(buf, pos) ==
    LET t == uint32(buf, pos)
    IN  IF ~t.ok THEN t
        ELSE IF t.val % 8 = 4 THEN t
        ELSE LET s == skipType(buf, t.pos, t.val % 8)
             IN  IF s.ok THEN SkipGroup(buf, s.pos) ELSE s

\* Reading a declared field: by its declared type, whatever the tag's wire type.
ReadField(buf, pos, type) ==
    CASE type = "int32" -> uint32(buf, pos)
      [] type = "string" -> LET n == uint32(buf, pos)
                                s == skip(buf, n.pos, n.val)
                            IN  IF n.ok THEN [s EXCEPT !.val = n.val] ELSE n

\* Type.decode: tag by tag to the end of the buffer; a declared field is read,
\* any other field skipped by its wire type.
RECURSIVE DecodeFrom(_, _, _, _)
DecodeFrom(fields, buf, pos, seen) ==
    IF pos > Len(buf) THEN [ok |-> TRUE, data |-> seen]
    ELSE LET t == uint32(buf, pos)
         IN  IF ~t.ok THEN [ok |-> FALSE, data |-> <<>>]
             ELSE LET no == t.val \div 8
                      decl == {f \in fields : f.no = no}
                  IN  IF decl # {}
                      THEN LET f == CHOOSE f \in decl : TRUE
                               r == ReadField(buf, t.pos, f.type)
                           IN  IF r.ok
                               THEN DecodeFrom(fields, buf, r.pos,
                                               Append(seen, <<no, r.val>>))
                               ELSE [ok |-> FALSE, data |-> <<>>]
                      ELSE LET r == skipType(buf, t.pos, t.val % 8)
                           IN  IF r.ok THEN DecodeFrom(fields, buf, r.pos, seen)
                               ELSE [ok |-> FALSE, data |-> <<>>]

\* ProtobufParser.decodeMessage(messageType, buffer): lookupType throws for a
\* type the root does not hold; decode makes its Reader with Reader.create,
\* which takes a Uint8Array and throws "illegal buffer" for an ArrayBuffer,
\* and then throws for bytes that do not fit.
decodeMessage(root, messageType, buf) ==
    LET found == {t \in root : t.name = messageType}
    IN  IF found = {} THEN [ok |-> FALSE, data |-> <<>>]
        ELSE IF buf.type # "Uint8Array" THEN [ok |-> FALSE, data |-> <<>>]
        ELSE DecodeFrom((CHOOSE t \in found : TRUE).fields, buf.bytes, 1, <<>>)

\* ---- UniversalProtobufParser

\* line.match(re): the first item of the line the expression matches.
FirstMatch(line, kinds) ==
    LET hits == {i \in 1..Len(line) : line[i].k \in kinds}
    IN  IF hits = {} THEN 0 ELSE CHOOSE i \in hits : \A j \in hits : i <= j

\* extractMessageTypes(protoContent): line by line, the package the line
\* names, then the message it names, qualified by the current package.
RECURSIVE ExtractFrom(_, _)
ExtractFrom(lines, currentPackage) ==
    IF lines = <<>> THEN <<>>
    ELSE LET line == Head(lines)
             p == FirstMatch(line, {"package"})
             pkg == IF p # 0 THEN line[p].name ELSE currentPackage
             m == FirstMatch(line, {"message", "comment"})
         IN  IF m # 0
             THEN <<IF pkg = "" THEN line[m].name ELSE pkg \o "." \o line[m].name>>
                  \o ExtractFrom(Tail(lines), pkg)
             ELSE ExtractFrom(Tail(lines), pkg)

extractMessageTypes(content) == ExtractFrom(content, "")

\* A set that keeps the value a key already has.
MapSetKeepFirst(m, entry) ==
    IF \E i \in 1..Len(m) : m[i].name = entry.name THEN m ELSE Append(m, entry)

\* Map.prototype.set: a key the map holds keeps its place, a new key goes last.
MapSet(m, entry) ==
    IF \E i \in 1..Len(m) : m[i].name = entry.name
    THEN [i \in 1..Len(m) |-> IF m[i].name = entry.name THEN entry ELSE m[i]]
    ELSE Append(m, entry)

MapHas(m, name) == \E i \in 1..Len(m) : m[i].name = name
MapGet(m, name) == m[CHOOSE i \in 1..Len(m) : m[i].name = name]

ParseResult(success, data, messageType, protoName) ==
    [kind |-> "resolved", success |-> success, data |-> data,
     messageType |-> messageType, protoName |-> protoName]
ParseMiss == ParseResult(FALSE, <<>>, "", <<>>)
NoParse == [buffer |-> EmptyBuffer, domain |-> <<>>, outcome |-> [ParseMiss EXCEPT !.kind = "none"]]

\* An inner loop that reports a definition without message types as a match
\* with no data.
ScanTypesEmptyMatches(root, name, types, buf) ==
    LET hits == {k \in 1..Len(types) : decodeMessage(root, types[k], buf).ok}
    IN  IF types = <<>> THEN ParseResult(TRUE, <<>>, "", name)
        ELSE IF hits = {} THEN ParseMiss
        ELSE LET k == CHOOSE h \in hits : \A j \in hits : h <= j
             IN  ParseResult(TRUE, decodeMessage(root, types[k], buf).data,
                             types[k], name)

\* The inner loop of tryParse: the message types of one definition in order.
RECURSIVE ScanTypes(_, _, _, _)
ScanTypes(root, name, types, buf) ==
    IF types = <<>> THEN ParseMiss
    ELSE LET d == decodeMessage(root, Head(types), buf)
         IN  IF d.ok THEN ParseResult(TRUE, d.data, Head(types), name)
             ELSE ScanTypes(root, name, Tail(types), buf)

\* The outer loop of tryParse: the candidates in order.
RECURSIVE ScanCandidates(_, _, _)
ScanCandidates(ps, cands, buf) ==
    IF cands = <<>> THEN ParseMiss
    ELSE LET c == Head(cands)
         IN  IF ~MapHas(ps, c.name) THEN ScanCandidates(ps, Tail(cands), buf)
             ELSE LET r == ScanTypes(MapGet(ps, c.name).root, c.name,
                                     c.messageTypes, buf)
                  IN  IF r.success THEN r ELSE ScanCandidates(ps, Tail(cands), buf)

\* Candidates chosen by a hint that must match letter case.
CandidatesCaseSensitive(defs, domain) ==
    IF domain # <<>>
    THEN SelectSeq(defs, LAMBDA d : includes(d.name, domain))
    ELSE defs

Candidates(defs, domain) ==
    IF domain # <<>>
    THEN SelectSeq(defs, LAMBDA d : includes(toLowerCase(d.name), toLowerCase(domain)))
    ELSE defs

\* tryParse(buffer, domain)
tryParse(ps, defs, buf, domain) ==
    ScanCandidates(ps, Candidates(defs, domain), buf)

\* getRegisteredProtos(): the keys of protoDefinitions in insertion order.
getRegisteredProtos == [i \in 1..Len(protoDefinitions) |-> protoDefinitions[i].name]

\* ------------------------------------------------------------------ SpecParser

\* A registerProto that enters the definition before it loads the text.
RegisterProtoCallSetsFirst(name, content) ==
    /\ registrations < MaxRegistrations
    /\ registrations' = registrations + 1
    /\ protoDefinitions' = MapSet(protoDefinitions,
          [name |-> name, content |-> content,
           messageTypes |-> extractMessageTypes(content)])
    /\ IF Parses(content)
       THEN /\ pendingRegs' = Append(pendingRegs,
                  [name |-> name, content |-> content, root |-> loadProto(content)])
            /\ registerCalls' = Append(registerCalls, [name |-> name, content |-> content])
            /\ registerRejected' = FALSE
       ELSE /\ registerRejected' = TRUE
            /\ UNCHANGED <<pendingRegs, registerCalls>>
    /\ lastParse' = NoParse
    /\ UNCHANGED <<parsers, firstRegistered>>
    /\ UNCHANGED outsidePb

\* registerProto(name, protoContent) up to its await: protobuf.parse runs; a
\* text it rejects rejects the call.
RegisterProtoCall(name, content) ==
    /\ registrations < MaxRegistrations
    /\ registrations' = registrations + 1
    /\ IF Parses(content)
       THEN /\ pendingRegs' = Append(pendingRegs,
                  [name |-> name, content |-> content, root |-> loadProto(content)])
            /\ registerCalls' = Append(registerCalls, [name |-> name, content |-> content])
            /\ registerRejected' = FALSE
       ELSE /\ registerRejected' = TRUE
            /\ UNCHANGED <<pendingRegs, registerCalls>>
    /\ lastParse' = NoParse
    /\ UNCHANGED <<parsers, protoDefinitions, firstRegistered>>
    /\ UNCHANGED outsidePb

\* registerProto resuming the call made last instead of the one made first.
RegisterProtoResumeLast ==
    /\ pendingRegs # <<>>
    /\ LET reg == pendingRegs[Len(pendingRegs)]
       IN  /\ parsers' = MapSet(parsers, [name |-> reg.name, root |-> reg.root])
           /\ protoDefinitions' = MapSet(protoDefinitions,
                 [name |-> reg.name, content |-> reg.content,
                  messageTypes |-> extractMessageTypes(reg.content)])
           /\ firstRegistered' =
                 IF \E i \in 1..Len(firstRegistered) : firstRegistered[i] = reg.name
                 THEN firstRegistered ELSE Append(firstRegistered, reg.name)
    /\ pendingRegs' = SubSeq(pendingRegs, 1, Len(pendingRegs) - 1)
    /\ lastParse' = NoParse
    /\ UNCHANGED <<registrations, registerRejected, registerCalls>>
    /\ UNCHANGED outsidePb

\* registerProto after its await: the types are extracted and both maps set.
\* The calls waiting resume in the order they were made.
RegisterProtoResume ==
    /\ pendingRegs # <<>>
    /\ LET reg == Head(pendingRegs)
       IN  /\ parsers' = MapSet(parsers, [name |-> reg.name, root |-> reg.root])
           /\ protoDefinitions' = MapSet(protoDefinitions,
                 [name |-> reg.name, content |-> reg.content,
                  messageTypes |-> extractMessageTypes(reg.content)])
           /\ firstRegistered' =
                 IF \E i \in 1..Len(firstRegistered) : firstRegistered[i] = reg.name
                 THEN firstRegistered ELSE Append(firstRegistered, reg.name)
    /\ pendingRegs' = Tail(pendingRegs)
    /\ lastParse' = NoParse
    /\ UNCHANGED <<registrations, registerRejected, registerCalls>>
    /\ UNCHANGED outsidePb

\* tryParse(buffer, domain): it has no await and runs to its return.  It
\* writes nothing of the parser, so one call is observed per state of the
\* two maps.
TryParseCall(buf, domain) ==
    /\ lastParse = NoParse
    /\ lastParse' = [buffer |-> buf, domain |-> domain,
                     outcome |-> tryParse(parsers, protoDefinitions, buf, domain)]
    /\ UNCHANGED <<parsers, protoDefinitions, pendingRegs, registrations,
                   registerRejected, firstRegistered, registerCalls>>
    /\ UNCHANGED outsidePb

InitParser ==
    /\ RecIdle /\ NetIdle /\ MgrIdle /\ QueryIdle /\ StorIdle
    /\ parsers = <<>>
    /\ protoDefinitions = <<>>
    /\ pendingRegs = <<>>
    /\ registrations = 0
    /\ registerRejected = FALSE
    /\ firstRegistered = <<>>
    /\ registerCalls = <<>>
    /\ lastParse = NoParse

NextParser ==
    \/ \E name \in SchemaNames, content \in ProtoContents : RegisterProtoCall(name, content)
    \/ RegisterProtoResume
    \/ \E buf \in Buffers, domain \in DomainHints : TryParseCall(buf, domain)

SpecParser == InitParser /\ [][NextParser]_vars

\* ------------------------------------------------------------------ values of events
\* The events EventFilter and EventSearch are given are plain JavaScript
\* values: strings, numbers, booleans, null, undefined, arrays and objects
\* with their properties in insertion order.  A value may also be a reference
\* to an object that is shared, which is how an object comes to hold itself.

JsString(x) == [t |-> "string", s |-> x, n |-> 0, kids |-> <<>>]
JsNumber(x) == [t |-> "number", s |-> "", n |-> x, kids |-> <<>>]
JsBoolean(b) == [t |-> "boolean", s |-> "", n |-> IF b THEN 1 ELSE 0, kids |-> <<>>]
JsRef(id) == [t |-> "ref", s |-> "", n |-> id, kids |-> <<>>]
JsNull == [t |-> "null", s |-> "", n |-> 0, kids |-> <<>>]
JsUndefined == [t |-> "undefined", s |-> "", n |-> 0, kids |-> <<>>]
JsObject(props) == [t |-> "object", s |-> "", n |-> 0, kids |-> props]
JsArray(items) ==
    [t |-> "array", s |-> "", n |-> 0,
     kids |-> [i \in 1..Len(items) |-> [k |-> "", v |-> items[i]]]]
Prop(key, value) == [k |-> key, v |-> value]

\* The shared objects: object 1 holds itself under "x".
SharedObjects ==
    [id \in {1} |->
        JsObject(<<Prop("method", JsString("GET")), Prop("b", JsBoolean(TRUE)),
                   Prop("x", JsRef(1))>>)]

\* The object a value is.
Resolve(v) == IF v.t = "ref" THEN SharedObjects[v.n] ELSE v

\* Whether an object is met again below itself, where JSON.stringify throws
\* its TypeError.
RECURSIVE MeetsItself(_, _)
MeetsItself(v, above) ==
    IF v.t = "ref"
    THEN v.n \in above \/ MeetsItself(SharedObjects[v.n], above \cup {v.n})
    ELSE \E i \in 1..Len(v.kids) : MeetsItself(v.kids[i].v, above)

IsCircular(v) == MeetsItself(v, {})

\* obj[key], key given by its characters
GetChars(obj, key) ==
    LET o == Resolve(obj)
    IN  IF o.t = "object" /\ \E i \in 1..Len(o.kids) : Chars(o.kids[i].k) = key
        THEN o.kids[CHOOSE i \in 1..Len(o.kids) : Chars(o.kids[i].k) = key].v
        ELSE JsUndefined

\* obj.key
Get(obj, key) == GetChars(obj, Chars(key))

\* The conversion of a value to a boolean in a condition.
Truthy(v) ==
    CASE v.t = "string" -> v.s # ""
      [] v.t = "number" -> v.n # 0
      [] v.t = "boolean" -> v.n = 1
      [] v.t \in {"object", "array", "ref"} -> TRUE
      [] OTHER -> FALSE

\* a || b
OrElse(a, b) == IF Truthy(a) THEN a ELSE b

\* String(v)
RECURSIVE ToStringChars(_)
ToStringChars(v) ==
    CASE v.t = "string" -> Chars(v.s)
      [] v.t = "number" -> NumberChars(v.n)
      [] v.t = "boolean" -> Chars(IF v.n = 1 THEN "true" ELSE "false")
      [] v.t = "null" -> Chars("null")
      [] v.t = "undefined" -> Chars("undefined")
      [] v.t = "array" ->
            join([i \in 1..Len(v.kids) |->
                     IF v.kids[i].v.t \in {"null", "undefined"} THEN <<>>
                     ELSE ToStringChars(v.kids[i].v)], <<",">>)
      [] OTHER -> Chars("[object Object]")

\* JSON.stringify(v) of a value that is not circular: the properties whose
\* value is undefined are left out of an object and written null in an array.
RECURSIVE Stringify(_)
Stringify(v) ==
    CASE v.t = "string" -> <<"\"">> \o Chars(v.s) \o <<"\"">>
      [] v.t = "number" -> NumberChars(v.n)
      [] v.t = "boolean" -> Chars(IF v.n = 1 THEN "true" ELSE "false")
      [] v.t = "ref" -> Stringify(SharedObjects[v.n])
      [] v.t = "array" ->
            <<"[">> \o join([i \in 1..Len(v.kids) |->
                               IF v.kids[i].v.t = "undefined" THEN Chars("null")
                               ELSE Stringify(v.kids[i].v)], <<",">>) \o <<"]">>
      [] v.t = "object" ->
            LET kept == SelectSeq(v.kids, LAMBDA kid : kid.v.t # "undefined")
            IN  <<"{">> \o join([i \in 1..Len(kept) |->
                                   <<"\"">> \o Chars(kept[i].k) \o <<"\"", ":">>
                                   \o Stringify(kept[i].v)], <<",">>) \o <<"}">>
      [] OTHER -> Chars("null")

\* The events the queries are made over.
EvXhr ==
    JsObject(<<Prop("source", JsString("xhr")), Prop("url", JsString("/a")),
               Prop("method", JsString("POST")), Prop("status", JsNumber(200)),
               Prop("timestamp", JsNumber(100)),
               Prop("data", JsObject(<<Prop("headers",
                   JsObject(<<Prop("content-type", JsString("application/json"))>>))>>))>>)
EvFetch ==
    JsObject(<<Prop("source", JsString("fetch")), Prop("url", JsString("/api/B")),
               Prop("method", JsString("post")), Prop("status", JsNumber(404)),
               Prop("timestamp", JsNumber(200))>>)
\* A WebSocket message: it has no method and no status.
EvWs ==
    JsObject(<<Prop("source", JsString("websocket")), Prop("url", JsString("/a")),
               Prop("timestamp", JsNumber(300)),
               Prop("data", JsObject(<<Prop("a", JsArray(<<JsString("HELLO"), JsNumber(200)>>))>>))>>)
EvGet ==
    JsObject(<<Prop("method", JsString("GET")), Prop("a", JsString("hello"))>>)
EvTiny == JsObject(<<Prop("a", JsString("hello"))>>)

EventPool == <<EvXhr, EvFetch, EvWs, EvGet, EvTiny>>

\* An event with "hello" five objects down and "zzz" six objects down.
EvDeep ==
    JsObject(<<Prop("a", JsObject(<<Prop("a", JsObject(<<Prop("a", JsObject(<<Prop("a",
        JsObject(<<Prop("a", JsString("hello")),
                   Prop("b", JsObject(<<Prop("a", JsString("zzz"))>>))>>))>>))>>))>>))>>)
\* An event that holds itself.
EvCircular == JsRef(1)

SearchPool == <<EvWs, EvDeep, EvCircular, EvGet>>

\* ------------------------------------------------------------------ EventFilter

\* FilterOptions: a field left out is "" (urlPattern, method, keyword,
\* contentType) or has present / kind set accordingly.
NoOptions ==
    [sources |-> [present |-> FALSE, v |-> <<>>],
     urlPattern |-> "",
     method |-> "",
     statusCode |-> [kind |-> "absent", n |-> 0, hasMin |-> FALSE, min |-> 0,
                     hasMax |-> FALSE, max |-> 0],
     timeRange |-> [present |-> FALSE, start |-> 0, end |-> 0],
     keyword |-> "",
     contentType |-> ""]

StatusIs(n) ==
    [kind |-> "number", n |-> n, hasMin |-> FALSE, min |-> 0, hasMax |-> FALSE, max |-> 0]
StatusBetween(hasMin, min, hasMax, max) ==
    [kind |-> "range", n |-> 0, hasMin |-> hasMin, min |-> min, hasMax |-> hasMax, max |-> max]

\* new RegExp(pattern, 'i'): the patterns considered are a literal text,
\* a literal text after ^, and "(", which is not a regular expression.
RegExpThrows(pattern) == includes(Chars(pattern), <<"(">>)

\* regex.test(url)
RegExpTest(pattern, url) ==
    LET p == toLowerCase(Chars(pattern))
        u == toLowerCase(Chars(url))
    IN  IF p # <<>> /\ p[1] = "^" THEN startsWith(u, Tail(p)) ELSE includes(u, p)

\* The callback of events.filter in EventFilter.filter, check by check:
\* "drop" where it returns false, "keep" where it returns true, "throw" where
\* new RegExp throws.
AfterContentType(event, options) ==
    IF options.contentType # "" /\ Truthy(Get(event, "data"))
    THEN LET data == Get(event, "data")
             headers == OrElse(Get(data, "headers"),
                               OrElse(Get(data, "responseHeaders"), JsObject(<<>>)))
             contentType == OrElse(Get(headers, "content-type"),
                                   OrElse(Get(headers, "Content-Type"), JsString("")))
         IN  IF ~includes(Chars(contentType.s), Chars(options.contentType))
             THEN "drop" ELSE "keep"
    ELSE "keep"

AfterKeyword(event, options) ==
    IF options.keyword # ""
    THEN LET searched == OrElse(Get(event, "data"), event)
             searchText == toLowerCase(Stringify(searched))
         IN  IF IsCircular(searched) THEN "throw"
             ELSE IF ~includes(searchText, toLowerCase(Chars(options.keyword)))
             THEN "drop" ELSE AfterContentType(event, options)
    ELSE AfterContentType(event, options)

AfterTimeRange(event, options) ==
    LET timestamp == Get(event, "timestamp")
        range == options.timeRange
    IN  IF range.present /\ Truthy(timestamp)
        THEN IF range.start # 0 /\ timestamp.n < range.start THEN "drop"
             ELSE IF range.end # 0 /\ timestamp.n > range.end THEN "drop"
             ELSE AfterKeyword(event, options)
        ELSE AfterKeyword(event, options)

AfterStatusCode(event, options) ==
    LET status == Get(event, "status")
        code == options.statusCode
    IN  IF code.kind # "absent" /\ ~(code.kind = "number" /\ code.n = 0)
           /\ status.t # "undefined"
        THEN IF code.kind = "number"
             THEN IF status.n # code.n THEN "drop" ELSE AfterTimeRange(event, options)
             ELSE IF code.hasMin /\ status.n < code.min THEN "drop"
             ELSE IF code.hasMax /\ status.n > code.max THEN "drop"
             ELSE AfterTimeRange(event, options)
        ELSE AfterTimeRange(event, options)

AfterMethod(event, options) ==
    LET method == Get(event, "method")
    IN  IF options.method # "" /\ Truthy(method)
           /\ toUpperCase(Chars(method.s)) # toUpperCase(Chars(options.method))
        THEN "drop" ELSE AfterStatusCode(event, options)

AfterUrlPattern(event, options) ==
    LET url == Get(event, "url")
    IN  IF options.urlPattern # "" /\ Truthy(url)
        THEN IF RegExpThrows(options.urlPattern) THEN "throw"
             ELSE IF ~RegExpTest(options.urlPattern, url.s) THEN "drop"
             ELSE AfterMethod(event, options)
        ELSE AfterMethod(event, options)

FilterVerdict(event, options) ==
    LET source == Get(event, "source")
    IN  IF options.sources.present /\ Truthy(source)
           /\ ~\E i \in 1..Len(options.sources.v) : options.sources.v[i] = source.s
        THEN "drop" ELSE AfterUrlPattern(event, options)

Returned(value) == [kind |-> "returned", value |-> value]
Threw == [kind |-> "threw", value |-> <<>>]

\* EventFilter.filter(events, options)
filter(evs, options) ==
    IF \E i \in 1..Len(evs) : FilterVerdict(evs[i], options) = "throw" THEN Threw
    ELSE Returned(SelectSeq(evs, LAMBDA e : FilterVerdict(e, options) = "keep"))

\* ------------------------------------------------------------------ EventSearch

IsSpace(c) == c = " "

\* String.prototype.trim() gives the empty string
TrimsToEmpty(str) == \A i \in 1..Len(str) : IsSpace(str[i])

\* str.split(/\s+/): the pieces between the runs of white space, the empty
\* ones at the two ends included.
RECURSIVE SplitFrom(_, _, _)
SplitFrom(str, i, piece) ==
    IF i > Len(str) THEN <<piece>>
    ELSE IF IsSpace(str[i])
         THEN IF i > 1 /\ IsSpace(str[i - 1]) THEN SplitFrom(str, i + 1, piece)
              ELSE <<piece>> \o SplitFrom(str, i + 1, <<>>)
         ELSE SplitFrom(str, i + 1, Append(piece, str[i]))

SplitSpaces(str) == SplitFrom(str, 1, <<>>)

\* str.split('.')
RECURSIVE SplitDots(_, _, _)
SplitDots(str, i, piece) ==
    IF i > Len(str) THEN <<piece>>
    ELSE IF str[i] = "." THEN <<piece>> \o SplitDots(str, i + 1, <<>>)
         ELSE SplitDots(str, i + 1, Append(piece, str[i]))

\* A flattening that descends one step further.
RECURSIVE extractSearchableTextSixDeep(_, _)
extractSearchableTextSixDeep(obj, depth) ==
    IF depth > 6 THEN <<>>
    ELSE CASE obj.t \in {"null", "undefined"} -> <<>>
           [] obj.t = "string" -> toLowerCase(Chars(obj.s))
           [] obj.t = "number" -> toLowerCase(NumberChars(obj.n))
           [] obj.t = "boolean" -> toLowerCase(Chars(IF obj.n = 1 THEN "true" ELSE "false"))
           [] OTHER ->
                 LET o == Resolve(obj)
                 IN  join([i \in 1..Len(o.kids) |->
                              extractSearchableTextSixDeep(o.kids[i].v, depth + 1)], <<" ">>)

\* extractSearchableText(obj, depth)
RECURSIVE extractSearchableText(_, _)
extractSearchableText(obj, depth) ==
    IF depth > 5 THEN <<>>
    ELSE CASE obj.t \in {"null", "undefined"} -> <<>>
           [] obj.t = "string" -> toLowerCase(Chars(obj.s))
           [] obj.t = "number" -> toLowerCase(NumberChars(obj.n))
           [] obj.t = "boolean" -> toLowerCase(Chars(IF obj.n = 1 THEN "true" ELSE "false"))
           [] OTHER ->
                 LET o == Resolve(obj)
                 IN  join([i \in 1..Len(o.kids) |->
                              extractSearchableText(o.kids[i].v, depth + 1)], <<" ">>)

\* A search that finds nothing for a blank query.
fullTextSearchNothingForBlank(evs, query) ==
    IF TrimsToEmpty(Chars(query)) THEN Returned(<<>>)
    ELSE LET lowerQuery == toLowerCase(Chars(query))
             keywords == SelectSeq(SplitSpaces(lowerQuery), LAMBDA k : Len(k) > 0)
         IN  Returned(SelectSeq(evs, LAMBDA event :
                 LET searchableText == extractSearchableText(event, 0)
                 IN  \A i \in 1..Len(keywords) : includes(searchableText, keywords[i])))

\* A search that is content with one keyword of the query.
fullTextSearchAnyKeyword(evs, query) ==
    IF TrimsToEmpty(Chars(query)) THEN Returned(evs)
    ELSE LET lowerQuery == toLowerCase(Chars(query))
             keywords == SelectSeq(SplitSpaces(lowerQuery), LAMBDA k : Len(k) > 0)
         IN  Returned(SelectSeq(evs, LAMBDA event :
                 LET searchableText == extractSearchableText(event, 0)
                 IN  \E i \in 1..Len(keywords) : includes(searchableText, keywords[i])))

\* EventSearch.fullTextSearch(events, query)
fullTextSearch(evs, query) ==
    IF TrimsToEmpty(Chars(query)) THEN Returned(evs)
    ELSE LET lowerQuery == toLowerCase(Chars(query))
             keywords == SelectSeq(SplitSpaces(lowerQuery), LAMBDA k : Len(k) > 0)
         IN  Returned(SelectSeq(evs, LAMBDA event :
                 LET searchableText == extractSearchableText(event, 0)
                 IN  \A i \in 1..Len(keywords) : includes(searchableText, keywords[i])))

\* The loop of pathSearch over the parts of the path: the value reached, or
\* "stop" where the loop returns false at null or undefined.
RECURSIVE FollowPath(_, _)
FollowPath(current, pathParts) ==
    IF pathParts = <<>> THEN [stop |-> FALSE, v |-> current]
    ELSE IF current.t \in {"null", "undefined"} THEN [stop |-> TRUE, v |-> current]
    ELSE FollowPath(GetChars(current, Head(pathParts)), Tail(pathParts))

\* EventSearch.pathSearch(events, path, value)
pathSearch(evs, path, value) ==
    LET pathParts == SplitDots(Chars(path), 1, <<>>)
    IN  Returned(SelectSeq(evs, LAMBDA event :
            LET end == FollowPath(event, pathParts)
            IN  /\ ~end.stop
                /\ IF value.t = "string"
                   THEN includes(toLowerCase(ToStringChars(end.v)),
                                 toLowerCase(Chars(value.s)))
                   ELSE /\ end.v.t = value.t
                        /\ end.v.t \in {"number", "null", "undefined"}
                        /\ end.v.n = value.n))

Min3(a, b, c) == IF a <= b /\ a <= c THEN a ELSE IF b <= c THEN b ELSE c

\* matrix[i][j] of levenshteinDistance, from the cell to its left and row
\* i - 1 (prev[j + 1] is matrix[i - 1][j]).
LevCell(str1, ch, prev, j, left) ==
    IF ch = str1[j] THEN prev[j]
    ELSE Min3(prev[j] + 1, left + 1, prev[j + 1] + 1)

\* The cells of columns lo..hi of row i, left being the cell of column
\* lo - 1; the columns are filled from left to right, half by half.
RECURSIVE LevSpan(_, _, _, _, _, _)
LevSpan(str1, ch, prev, lo, hi, left) ==
    IF lo > hi THEN <<>>
    ELSE IF lo = hi THEN <<LevCell(str1, ch, prev, lo, left)>>
    ELSE LET mid == (lo + hi) \div 2
             first == LevSpan(str1, ch, prev, lo, mid, left)
         IN  first \o LevSpan(str1, ch, prev, mid + 1, hi, first[Len(first)])

\* Row i of the matrix from row i - 1.
LevRow(str1, ch, prev, i) == <<i>> \o LevSpan(str1, ch, prev, 1, Len(str1), i)

\* The rows one after the other, each complete before the next is begun.
RECURSIVE LevRows(_, _, _, _)
LevRows(str1, str2, i, prev) ==
    IF i > Len(str2) THEN prev[Len(str1) + 1]
    ELSE LET row == LevRow(str1, str2[i], prev, i)
         IN  CASE Len(row) = Len(str1) + 1 -> LevRows(str1, str2, i + 1, row)

\* levenshteinDistance(str1, str2)
levenshteinDistance(str1, str2) ==
    LevRows(str1, str2, 1, [j \in 1..(Len(str1) + 1) |-> j - 1])

\* calculateSimilarity(str1, str2) >= threshold, the threshold in tenths
SimilarEnough(str1, str2, tenths) ==
    LET longer == IF Len(str1) > Len(str2) THEN str1 ELSE str2
        shorter == IF Len(str1) > Len(str2) THEN str2 ELSE str1
    IN  IF Len(longer) = 0 THEN 10 >= tenths
        ELSE (Len(longer) - levenshteinDistance(longer, shorter)) * 10
                >= tenths * Len(longer)

\* A search that ranks its results, the most similar first.
fuzzySearchRanked(evs, query, tenths) ==
    LET kept == SelectSeq(evs, LAMBDA event :
                    SimilarEnough(toLowerCase(Stringify(event)),
                                  toLowerCase(Chars(query)), tenths))
        dist(e) == levenshteinDistance(toLowerCase(Stringify(e)), toLowerCase(Chars(query)))
    IN  IF Len(kept) >= 2 /\ dist(kept[Len(kept)]) < dist(kept[1])
        THEN Returned(<<kept[Len(kept)]>> \o SubSeq(kept, 1, Len(kept) - 1))
        ELSE Returned(kept)

\* EventSearch.fuzzySearch(events, query, threshold)
fuzzySearch(evs, query, tenths) ==
    IF \E i \in 1..Len(evs) : IsCircular(evs[i]) THEN Threw
    ELSE Returned(SelectSeq(evs, LAMBDA event :
             SimilarEnough(toLowerCase(Stringify(event)), toLowerCase(Chars(query)), tenths)))

\* ------------------------------------------------------------------ SpecQuery
\* EventFilter.filter and the searches of EventSearch applied to event arrays.

\* The arrays of at most MaxQueryEvents events of EventPool; an event may
\* occur in an array more than once.
EventLists ==
    { [i \in 1..Len(ix) |-> EventPool[ix[i]]] :
        ix \in SeqsUpTo(1..Len(EventPool), MaxQueryEvents) }

FilterOptionsTried ==
    { NoOptions,
      [NoOptions EXCEPT !.method = "POST"],
      [NoOptions EXCEPT !.sources = [present |-> TRUE, v |-> <<"xhr", "fetch">>]],
      [NoOptions EXCEPT !.sources = [present |-> TRUE, v |-> <<>>]],
      [NoOptions EXCEPT !.urlPattern = "API"],
      [NoOptions EXCEPT !.urlPattern = "^/a"],
      [NoOptions EXCEPT !.urlPattern = "("],
      [NoOptions EXCEPT !.statusCode = StatusIs(200)],
      [NoOptions EXCEPT !.statusCode = StatusIs(0)],
      [NoOptions EXCEPT !.statusCode = StatusBetween(TRUE, 300, FALSE, 0)],
      [NoOptions EXCEPT !.statusCode = StatusBetween(FALSE, 0, TRUE, 300)],
      [NoOptions EXCEPT !.timeRange = [present |-> TRUE, start |-> 150, end |-> 250]],
      [NoOptions EXCEPT !.timeRange = [present |-> TRUE, start |-> 0, end |-> 150]],
      [NoOptions EXCEPT !.keyword = "HELLO"],
      [NoOptions EXCEPT !.keyword = "json"],
      [NoOptions EXCEPT !.contentType = "json"],
      [NoOptions EXCEPT !.contentType = "text/plain"],
      [NoOptions EXCEPT !.method = "post", !.statusCode = StatusIs(404)],
      [NoOptions EXCEPT !.sources = [present |-> TRUE, v |-> <<"websocket">>],
                        !.keyword = "hello"] }

FullTextQueries == {"", " ", "hello", "xhr post", "  post ", "zzz"}

PathQueries ==
    { [path |-> "method", value |-> JsString("post")],
      [path |-> "data.a", value |-> JsString("hel")],
      [path |-> "status", value |-> JsNumber(200)],
      [path |-> "a.b", value |-> JsUndefined],
      [path |-> "x", value |-> JsString("undefined")],
      [path |-> "", value |-> JsString("")] }

FuzzyQueries ==
    { [text |-> "{\"a\":\"hellp\"}", tenths |-> 6],
      [text |-> "hello", tenths |-> 6],
      [text |-> "hello", tenths |-> 3],
      [text |-> "", tenths |-> 0],
      [text |-> "zzz", tenths |-> 10] }

Query(op, options, text, value, tenths, out) ==
    [op |-> op, options |-> options, text |-> text, value |-> value,
     tenths |-> tenths, out |-> out]

NoQuery == Query("none", NoOptions, "", JsUndefined, 0, Returned(<<>>))

\* The four calls are static methods; up to MaxQueryCalls calls are made on
\* one array, the last of them kept with its outcome.

\* A filter that takes the events it drops out of the array it was given.
FilterCallDropsInPlace(options) ==
    /\ queryCalls < MaxQueryCalls
    /\ queryCalls' = queryCalls + 1
    /\ lastQuery' = Query("filter", options, "", JsUndefined, 0,
                          filter(queryEvents, options))
    /\ queryEvents' = IF filter(queryEvents, options) = Threw THEN queryEvents
                      ELSE filter(queryEvents, options).value
    /\ UNCHANGED outsideQuery

FilterCall(options) ==
    /\ queryCalls < MaxQueryCalls
    /\ queryCalls' = queryCalls + 1
    /\ lastQuery' = Query("filter", options, "", JsUndefined, 0,
                          filter(queryEvents, options))
    /\ UNCHANGED queryEvents
    /\ UNCHANGED outsideQuery

FullTextSearchCall(query) ==
    /\ queryCalls < MaxQueryCalls
    /\ queryCalls' = queryCalls + 1
    /\ lastQuery' = Query("fullTextSearch", NoOptions, query, JsUndefined, 0,
                          fullTextSearch(queryEvents, query))
    /\ UNCHANGED queryEvents
    /\ UNCHANGED outsideQuery

PathSearchCall(path, value) ==
    /\ queryCalls < MaxQueryCalls
    /\ queryCalls' = queryCalls + 1
    /\ lastQuery' = Query("pathSearch", NoOptions, path, value, 0,
                          pathSearch(queryEvents, path, value))
    /\ UNCHANGED queryEvents
    /\ UNCHANGED outsideQuery

FuzzySearchCall(query, tenths) ==
    /\ queryCalls < MaxQueryCalls
    /\ queryCalls' = queryCalls + 1
    /\ lastQuery' = Query("fuzzySearch", NoOptions, query, JsUndefined, tenths,
                          fuzzySearch(queryEvents, query, tenths))
    /\ UNCHANGED queryEvents
    /\ UNCHANGED outsideQuery

InitQuery ==
    /\ RecIdle /\ NetIdle /\ MgrIdle /\ PbIdle /\ StorIdle
    /\ queryEvents \in EventLists
    /\ lastQuery = NoQuery
    /\ queryCalls = 0

\* No call has been made on the array yet.
FirstCall == queryCalls = 0

\* One call is observed per array.
NextQuery ==
    \/ \E options \in FilterOptionsTried : FirstCall /\ FilterCall(options)
    \/ \E query \in FullTextQueries : FirstCall /\ FullTextSearchCall(query)
    \/ \E q \in PathQueries : FirstCall /\ PathSearchCall(q.path, q.value)
    \/ \E q \in FuzzyQueries : FirstCall /\ FuzzySearchCall(q.text, q.tenths)

SpecQuery == InitQuery /\ [][NextQuery]_vars

\* ------------------------------------------------------------------ SpecSearch
\* An array queried several times over, some of its events nested deeper than
\* extractSearchableText descends and some holding themselves.

SearchLists ==
    { [i \in 1..Len(ix) |-> SearchPool[ix[i]]] :
        ix \in SeqsUpTo(1..Len(SearchPool), MaxQueryEvents) }

SearchOptionsTried ==
    { NoOptions,
      [NoOptions EXCEPT !.method = "POST"],
      [NoOptions EXCEPT !.keyword = "hello"] }

SearchQueries == {"", "hello", "HELLO 200", "get true", "zzz", "hello zzz"}

SearchPaths ==
    { [path |-> "x.x.method", value |-> JsString("GET")],
      [path |-> "data.a", value |-> JsString("hel")] }

SearchFuzzy ==
    { [text |-> "hello", tenths |-> 3],
      [text |-> "zzz", tenths |-> 0] }

InitSearch ==
    /\ RecIdle /\ NetIdle /\ MgrIdle /\ PbIdle /\ StorIdle
    /\ queryEvents \in SearchLists
    /\ lastQuery = NoQuery
    /\ queryCalls = 0

NextSearch ==
    \/ \E options \in SearchOptionsTried : FilterCall(options)
    \/ \E query \in SearchQueries : FullTextSearchCall(query)
    \/ \E q \in SearchPaths : PathSearchCall(q.path, q.value)
    \/ \E q \in SearchFuzzy : FuzzySearchCall(q.text, q.tenths)

SpecSearch == InitSearch /\ [][NextSearch]_vars

\* ------------------------------------------------------------------ SpecListener
\* HookListener in the content script: the message listener, the flush timer
\* and the flush() calls they start, each waiting for its MessageClient.send.

\* seq with its element k taken out
Without(seq, k) == SubSeq(seq, 1, k - 1) \o SubSeq(seq, k + 1, Len(seq))

\* flush() up to its await: the buffer is copied, emptied, and the copy sent.
Flush(buffer) ==
    /\ flushes < MaxFlushes
    /\ flushes' = flushes + 1
    /\ eventBuffer' = <<>>
    /\ flights' = Append(flights, [events |-> buffer, arrived |-> FALSE])

\* The message listener for a message one of the three hooks posted (the
\* messages of other sources return before they touch anything): the event
\* is pushed, and a buffer that has reached bufferSize is flushed.
WindowMessage ==
    /\ accepted < MaxAccepted
    /\ accepted' = accepted + 1
    /\ LET pushed == Append(eventBuffer, accepted + 1)
       IN  IF Len(pushed) >= bufferSize
           THEN Flush(pushed)
           ELSE /\ eventBuffer' = pushed
                /\ UNCHANGED <<flights, flushes>>
    /\ UNCHANGED delivered
    /\ UNCHANGED outsideListener

\* The callback of setInterval, and flushNow(): a buffer that is not empty is
\* flushed.
FlushTimer ==
    /\ eventBuffer # <<>>
    /\ Flush(eventBuffer)
    /\ UNCHANGED <<delivered, accepted>>
    /\ UNCHANGED outsideListener

\* chrome.runtime.sendMessage hands the oldest message not yet handed over to
\* the background's listener, which gives it to router.handle.
BackgroundReceives ==
    /\ \E k \in 1..Len(flights) : ~flights[k].arrived
    /\ LET k == CHOOSE j \in 1..Len(flights) :
                    ~flights[j].arrived /\ \A h \in 1..(j - 1) : flights[h].arrived
       IN  /\ flights' = [flights EXCEPT ![k].arrived = TRUE]
           /\ delivered' = delivered \o flights[k].events
    /\ UNCHANGED <<eventBuffer, accepted, flushes>>
    /\ UNCHANGED outsideListener

\* The response of the background says success: the send resolves and flush()
\* ends.
SendResolves(k) ==
    /\ flights[k].arrived
    /\ flights' = Without(flights, k)
    /\ UNCHANGED <<eventBuffer, delivered, accepted, flushes>>
    /\ UNCHANGED outsideListener

\* The send rejects: chrome.runtime.lastError is set, with the message handed
\* over or not, or the response of router.handle says the handler threw.
\* The catch of flush() puts the batch back in front of the buffer.
SendRejects(k) ==
    /\ flights' = Without(flights, k)
    /\ eventBuffer' = flights[k].events \o eventBuffer
    /\ UNCHANGED <<delivered, accepted, flushes>>
    /\ UNCHANGED outsideListener

InitListener == InitRecorder

NextListener ==
    \/ WindowMessage
    \/ FlushTimer
    \/ BackgroundReceives
    \/ \E k \in 1..Len(flights) : SendResolves(k)
    \/ \E k \in 1..Len(flights) : SendRejects(k)

SpecListener == InitListener /\ [][NextListener]_vars

\* ------------------------------------------------------------------ SpecQueue
\* MessageQueue: enqueue calls and the MessageClient.send calls of process().

\* enqueue(message): the message is pushed with its promise and process()
\* called, which does nothing while a send is awaited and otherwise takes the
\* first message off the queue and hands it to MessageClient.send.
Enqueue ==
    /\ Len(promises) < MaxEnqueued
    /\ promises' = Append(promises, "pending")
    /\ LET pushed == Append(queue, Len(promises) + 1)
       IN  IF processing \/ pushed = <<>>
           THEN /\ queue' = pushed
                /\ UNCHANGED <<processing, sendLog>>
           ELSE /\ processing' = TRUE
                /\ queue' = Tail(pushed)
                /\ sendLog' = Append(sendLog, [m |-> Head(pushed), outcome |-> "pending"])
    /\ UNCHANGED outsideQueue

\* A settle that leaves the messages waiting where they are.
SendSettlesLeavesQueue(outcome) ==
    /\ processing
    /\ LET k == Len(sendLog)
       IN  /\ promises' = [promises EXCEPT ![sendLog[k].m] = outcome]
           /\ sendLog' = [sendLog EXCEPT ![k].outcome = outcome]
           /\ processing' = FALSE
           /\ UNCHANGED queue
    /\ UNCHANGED outsideQueue

\* await MessageClient.send resumes in process(): the promise of the message
\* is resolved or rejected as the send was; finally processing is reset and
\* process() called again, which sends the next message waiting.
SendSettles(outcome) ==
    /\ processing
    /\ LET k == Len(sendLog)
       IN  /\ promises' = [promises EXCEPT ![sendLog[k].m] = outcome]
           /\ IF queue = <<>>
              THEN /\ processing' = FALSE
                   /\ sendLog' = [sendLog EXCEPT ![k].outcome = outcome]
                   /\ UNCHANGED queue
              ELSE /\ processing' = TRUE
                   /\ queue' = Tail(queue)
                   /\ sendLog' = Append([sendLog EXCEPT ![k].outcome = outcome],
                                         [m |-> Head(queue), outcome |-> "pending"])
    /\ UNCHANGED outsideQueue

InitQueue == InitRecorder

NextQueue ==
    \/ Enqueue
    \/ \E outcome \in {"resolved", "rejected"} : SendSettles(outcome)

\* Every send settles.
SpecQueue == InitQueue /\ [][NextQueue]_vars
             /\ WF_vars(\E outcome \in {"resolved", "rejected"} : SendSettles(outcome))

\* ------------------------------------------------------------------ SpecNative
\* NativeMessagingClient: connect, send, the host's responses, the port's
\* disconnect event and disconnect().

\* The promises of the requests in the list are rejected.
RejectListed(ps, ids) ==
    [k \in 1..Len(ps) |->
        IF \E j \in 1..Len(ids) : ids[j] = ps[k].id
        THEN [ps[k] EXCEPT !.status = "rejected"] ELSE ps[k]]

\* rejectAll(error)
rejectAll ==
    /\ sendPromises' = RejectListed(sendPromises, messageQueue)
    /\ messageQueue' = <<>>

\* connect(hostName), called while no port is held; connectNative returns a
\* port or throws.
Connect(throws) ==
    /\ port = "null"
    /\ port' = IF throws THEN "null" ELSE "open"
    /\ UNCHANGED <<messageQueue, messageIdCounter, sendPromises>>
    /\ UNCHANGED outsideNative

\* send(message): rejected at once without a port; else the request gets the
\* next id, is pushed and posted, and is popped and rejected when postMessage
\* throws.
Send(postThrows) ==
    /\ Len(sendPromises) < MaxSends
    /\ IF port = "null"
       THEN /\ sendPromises' = Append(sendPromises, [id |-> 0, status |-> "rejected"])
            /\ UNCHANGED <<messageQueue, messageIdCounter>>
       ELSE LET messageId == messageIdCounter + 1
            IN  /\ messageIdCounter' = messageId
                /\ IF postThrows
                   THEN /\ sendPromises' = Append(sendPromises,
                                                  [id |-> messageId, status |-> "rejected"])
                        /\ UNCHANGED messageQueue
                   ELSE /\ sendPromises' = Append(sendPromises,
                                                  [id |-> messageId, status |-> "pending"])
                        /\ messageQueue' = Append(messageQueue, messageId)
    /\ UNCHANGED port
    /\ UNCHANGED outsideNative

\* handleMessage(response) for a response of the host to a request waiting.
HandleMessage(k, isError) ==
    /\ port = "open"
    /\ messageQueue' = SubSeq(messageQueue, 1, k - 1)
                          \o SubSeq(messageQueue, k + 1, Len(messageQueue))
    /\ sendPromises' = [j \in 1..Len(sendPromises) |->
          IF sendPromises[j].id = messageQueue[k]
          THEN [sendPromises[j] EXCEPT !.status = IF isError THEN "rejected" ELSE "resolved"]
          ELSE sendPromises[j]]
    /\ UNCHANGED <<port, messageIdCounter>>
    /\ UNCHANGED outsideNative

\* The port's onDisconnect listener: rejectAll only when
\* chrome.runtime.lastError is set; the port is dropped.
PortDisconnects(withError) ==
    /\ port = "open"
    /\ IF withError THEN rejectAll ELSE UNCHANGED <<sendPromises, messageQueue>>
    /\ port' = "null"
    /\ UNCHANGED messageIdCounter
    /\ UNCHANGED outsideNative

\* disconnect()
Disconnect ==
    /\ port' = "null"
    /\ rejectAll
    /\ UNCHANGED messageIdCounter
    /\ UNCHANGED outsideNative

InitNative == InitRecorder

NextNative ==
    \/ \E throws \in BOOLEAN : Connect(throws)
    \/ \E postThrows \in BOOLEAN : Send(postThrows)
    \/ \E k \in 1..Len(messageQueue), isError \in BOOLEAN : HandleMessage(k, isError)
    \/ \E withError \in BOOLEAN : PortDisconnects(withError)
    \/ Disconnect

SpecNative == InitNative /\ [][NextNative]_vars

\* ------------------------------------------------------------------ SpecStorage
\* HookStorage in the background page: storeEvents calls, which the router
\* starts one per STORE_HOOK_EVENTS message without waiting for the earlier
\* ones, clearEvents, and the clock.

\* The messages' events: one whose data carries no timestamp, one whose data
\* carries the timestamp 1.
HookMessage(source, timestamp) == [source |-> source, type |-> "event", timestamp |-> timestamp]

BatchesTried ==
    { <<HookMessage("fetch-hook", 0)>>,
      <<HookMessage("xhr-hook", 0), HookMessage("websocket-hook", 1)>> }

\* Math.random().toString(36).substr(2, 9), by its place in the order of strings.
RandomSuffixes == {0, 1}

\* `${Date.now()}-${suffix}`
StoredId(ms, suffix) == [ms |-> ms, suffix |-> suffix]

\* a < b of two ids as strings; the clock's digits are as many in both.
IdLess(a, b) == a.ms < b.ms \/ (a.ms = b.ms /\ a.suffix < b.suffix)

\* HookStorage.getSource
getSource(source) ==
    CASE source = "xhr-hook" -> "xhr"
      [] source = "fetch-hook" -> "fetch"
      [] source = "websocket-hook" -> "websocket"
      [] OTHER -> "xhr"

\* The StoredHookEvent storeEvents makes of an event.
StoredHookEvent(event, suffix) ==
    [id |-> StoredId(now, suffix),
     source |-> getSource(event.source),
     type |-> event.type,
     timestamp |-> IF event.timestamp # 0 THEN event.timestamp ELSE now]

\* sort((a, b) => b.timestamp - a.timestamp): newest first, events of one
\* timestamp in the order they had.
RECURSIVE InsertNewestFirst(_, _)
InsertNewestFirst(sorted, e) ==
    IF sorted = <<>> THEN <<e>>
    ELSE IF Head(sorted).timestamp >= e.timestamp
         THEN <<Head(sorted)>> \o InsertNewestFirst(Tail(sorted), e)
         ELSE <<e>> \o sorted

RECURSIVE SortNewestFirst(_, _)
SortNewestFirst(sorted, rest) ==
    IF rest = <<>> THEN sorted
    ELSE SortNewestFirst(InsertNewestFirst(sorted, Head(rest)), Tail(rest))

\* slice(0, n)
Slice(s, n) == IF Len(s) <= n THEN s ELSE SubSeq(s, 1, n)

\* storeEvents(events) up to await this.storage.get: every event gets its id.
StoreEventsCall(batch, suffixes) ==
    /\ Len(storeCalls) < MaxStoreCalls
    /\ LET storedEvents == [k \in 1..Len(batch) |-> StoredHookEvent(batch[k], suffixes[k])]
       IN  /\ storeCalls' = Append(storeCalls,
                 [st |-> "get", storedEvents |-> storedEvents, allEvents |-> <<>>])
           /\ assignedIds' = assignedIds \o [k \in 1..Len(batch) |-> storedEvents[k].id]
    /\ UNCHANGED <<hookEvents, now>>
    /\ UNCHANGED outsideStor

\* await this.storage.get resumes with the stored list: merge, sort, cut, and
\* start storage.set.
StorageGetSettles(i) ==
    /\ storeCalls[i].st = "get"
    /\ storeCalls' = [storeCalls EXCEPT ![i] =
          [@ EXCEPT !.st = "set",
                    !.allEvents = Slice(SortNewestFirst(<<>>,
                                            storeCalls[i].storedEvents \o hookEvents),
                                        StorageMaxEvents)]]
    /\ UNCHANGED <<hookEvents, now, assignedIds>>
    /\ UNCHANGED outsideStor

\* storage.set writes the list and the call returns.
StorageSetSettles(i) ==
    /\ storeCalls[i].st = "set"
    /\ hookEvents' = storeCalls[i].allEvents
    /\ storeCalls' = [storeCalls EXCEPT ![i].st = "done"]
    /\ UNCHANGED <<now, assignedIds>>
    /\ UNCHANGED outsideStor

\* HookStorage.clearEvents()
ClearStoredEvents ==
    /\ hookEvents # <<>>
    /\ hookEvents' = <<>>
    /\ UNCHANGED <<storeCalls, now, assignedIds>>
    /\ UNCHANGED outsideStor

\* A millisecond passes.
ClockTick ==
    /\ now < MaxClock
    /\ now' = now + 1
    /\ UNCHANGED <<hookEvents, storeCalls, assignedIds>>
    /\ UNCHANGED outsideStor

InitStorage == RecIdle /\ NetIdle /\ MgrIdle /\ PbIdle /\ QueryIdle /\ StorIdle

NextStorage ==
    \/ \E batch \in BatchesTried :
          \E suffixes \in [1..Len(batch) -> RandomSuffixes] : StoreEventsCall(batch, suffixes)
    \/ \E i \in 1..Len(storeCalls) : StorageGetSettles(i)
    \/ \E i \in 1..Len(storeCalls) : StorageSetSettles(i)
    \/ ClearStoredEvents
    \/ ClockTick

SpecStorage == InitStorage /\ [][NextStorage]_vars

\* ------------------------------------------------------------------ SpecCleanup
\* hookXHR, hookFetch and hookWebSocket of code-snippets/dom.ts and the cleanup
\* functions they return.

\* A hook call: it keeps what the global held in its closure, puts its wrapper
\* in the global and returns the cleanup function.
Hook(p) ==
    /\ Len(hooks) < MaxHooks
    /\ hooks' = Append(hooks, [primitive |-> p, original |-> window[p]])
    /\ window' = [window EXCEPT ![p] = Len(hooks) + 1]
    /\ UNCHANGED cleanupCalls
    /\ UNCHANGED outsideDom

hookXHR == Hook("XMLHttpRequest")

hookFetch == Hook("fetch")

hookWebSocket == Hook("WebSocket")

\* The cleanup function of hook call k: it assigns what the closure kept.
Cleanup(k) ==
    /\ Len(cleanupCalls) < MaxCleanupCalls
    /\ window' = [window EXCEPT ![hooks[k].primitive] = hooks[k].original]
    /\ cleanupCalls' = Append(cleanupCalls, k)
    /\ UNCHANGED hooks
    /\ UNCHANGED outsideDom

InitCleanup == RecIdle /\ NetIdle /\ MgrIdle /\ PbIdle /\ QueryIdle /\ StorIdle

NextCleanup ==
    \/ hookXHR
    \/ hookFetch
    \/ hookWebSocket
    \/ \E k \in 1..Len(hooks) : Cleanup(k)

SpecCleanup == InitCleanup /\ [][NextCleanup]_vars

\* ------------------------------------------------------------------ claims

\* C1: after N recordEvent calls with no clearEvents in between, a recorder of
\* capacity C holds exactly min(N, C) events: the most recent C, in arrival order.
C1_MostRecentInOrder ==
    \A h \in Recorders : events[h] = LastK(arrivals[h], Capacity(h))

C1_Witness ==
    \E h \in Recorders :
        /\ Len(arrivals[h]) = Capacity(h) + 2
        /\ Len(events[h]) = Capacity(h)

\* C8: getEvents() hands out an independent copy: nothing the caller does to
\* the returned array or to the event objects in it changes what the recorder
\* holds.
C8_IndependentCopy ==
    [][(CallerShiftsArray \/ CallerWritesEvent) =>
          \A h \in Recorders : Deref(h, events[h])' = Deref(h, events[h])]_vars

\* ---- the wrapped fetch and XMLHttpRequest

IsFetch(s) == s.kind \in {"advanced", "hook"}

\* C2: with no interceptor registered, a call through a wrapped fetch calls
\* the original fetch exactly once with the caller's arguments, and the caller
\* observes exactly what the original settled with.
C2_FetchTransparent ==
    \A i \in 1..Len(slots) :
        (IsFetch(slots[i]) /\ interceptors = <<>>) =>
            /\ slots[i].origCalls = 1
            /\ slots[i].origArgs = slots[i].req
            /\ slots[i].outcome # Pending => slots[i].outcome = slots[i].orig

\* C3: when reading or parsing the duplicate's body fails, the wrapped fetch
\* still resolves with the original response, no fetch-error is posted, and
\* the event is stored with the raw body.
C3_BodyFailureAbsorbed ==
    \A i \in 1..Len(slots) :
        (IsFetch(slots[i]) /\ slots[i].readFailed) =>
            /\ slots[i].outcome = Resolved(slots[i].resp)
            /\ \A k \in 1..Len(slots[i].posted) :
                  slots[i].posted[k].type # "fetch-error"
            /\ slots[i].kind = "advanced" =>
                  /\ slots[i].recs = 1
                  /\ heap["fetch"][slots[i].ev].responseBody = Str(slots[i].resp.body)

\* C4: an exception of the observer callback never reaches the caller of the
\* wrapped primitive, which gets exactly the result or error of the original.
C4_CallbackErrorAbsorbed ==
    \A i \in 1..Len(slots) :
        (slots[i].kind = "hook" /\ slots[i].cbThrew) =>
            slots[i].outcome = slots[i].orig

\* What the event of request r answered by resp holds when it is recorded.
FetchEventOf(r, resp) ==
    [url |-> r.url, method |-> MethodOf(r),
     requestBody |-> parseRequestBody(r.body),
     status |-> resp.status,
     responseHeaders |-> FetchResponseHeaders(resp),
     responseBody |-> AdvancedReadBody(resp).val]

XhrEventFor(r, resp) ==
    [url |-> r.url, method |-> MethodOf(r),
     requestBody |-> parseRequestBody(r.body),
     status |-> resp.status,
     responseHeaders |-> parseResponseHeaders(resp),
     responseBody |-> parseResponseBody(resp.body, "")]

C6_ExactlyOneEntry ==
    \A i \in 1..Len(slots) :
        LET s == slots[i] IN
        (\/ s.kind = "xhr" /\ s.st = "done"
         \/ s.kind = "advanced" /\ s.st = "done" /\ s.outcome.kind = "resolved")
            => s.recs = 1

\* C7: HookManager.install() while the hooks are installed is a no-op: it
\* wraps nothing again and leaves the flag and every recorder as they were.
C7_InstallIdempotent ==
    [][(isInstalled /\ Install) =>
          /\ wrapDepth' = wrapDepth
          /\ isInstalled' = isInstalled
          /\ events' = events
          /\ heap' = heap]_vars

\* install() was called on installed hooks whose recorders hold events.
C7_Witness ==
    /\ console = "Hooks already installed"
    /\ isInstalled
    /\ \A t \in Recorders : wrapDepth[t] = 1
    /\ events["fetch"] # <<>>

\* ---- UniversalProtobufParser.tryParse

\* The (schema, message type) positions tryParse scans for the last call: the
\* schemas in the order of their first registration, narrowed by the domain
\* hint, and each schema's message types in extraction order.
ScannedPairs ==
    UNION { { <<i, j>> : j \in 1..Len(MapGet(protoDefinitions, firstRegistered[i]).messageTypes) }
            : i \in { k \in 1..Len(firstRegistered) :
                        \/ lastParse.domain = <<>>
                        \/ includes(toLowerCase(firstRegistered[k]),
                                    toLowerCase(lastParse.domain)) } }

PairRoot(p) == MapGet(parsers, firstRegistered[p[1]]).root
PairType(p) == MapGet(protoDefinitions, firstRegistered[p[1]]).messageTypes[p[2]]

\* The type at position p is declared by its schema and the bytes of the
\* buffer are a well-formed message of it.
StructurallyAccepts(p) ==
    \E t \in PairRoot(p) :
        /\ t.name = PairType(p)
        /\ DecodeFrom(t.fields, lastParse.buffer.bytes, 1, <<>>).ok

ScannedBefore(p, q) == p[1] < q[1] \/ (p[1] = q[1] /\ p[2] < q[2])

\* C9: tryParse returns the first (schema, message type) pair, schemas in
\* registration order and message types in extraction order, whose type
\* structurally decodes the bytes of the buffer, and reports no success only
\* when no scanned pair does; so a valid instance of M decoded after
\* registering demo comes back as p.M of demo.
C9_FirstStructuralMatch ==
    lastParse.outcome.kind = "resolved" =>
        LET accepting == {p \in ScannedPairs : StructurallyAccepts(p)}
        IN  IF accepting = {} THEN ~lastParse.outcome.success
            ELSE \E p \in accepting :
                    /\ \A q \in accepting : q = p \/ ScannedBefore(p, q)
                    /\ lastParse.outcome.success
                    /\ lastParse.outcome.protoName = firstRegistered[p[1]]
                    /\ lastParse.outcome.messageType = PairType(p)

\* C10: tryParse never throws or rejects, for any buffer and any registry; an
\* empty buffer yields {success: false}; and when no candidate decodes the
\* outcome is the value {success: false}.
C10_NeverThrowsEmptyMisses ==
    lastParse.outcome.kind # "none" =>
        /\ lastParse.outcome.kind = "resolved"
        /\ lastParse.buffer.bytes = <<>> => lastParse.outcome = ParseMiss
        /\ (\A p \in ScannedPairs :
               ~decodeMessage(PairRoot(p), PairType(p), lastParse.buffer).ok)
              => lastParse.outcome = ParseMiss

\* ---- UniversalProtobufParser: the registry

\* The registerProto calls that have run to their end, in call order.
CompletedCalls == SubSeq(registerCalls, 1, Len(registerCalls) - Len(pendingRegs))

\* The two maps after the calls of h made one after the other, none
\* overlapping another.
RECURSIVE SerialParsers(_)
SerialParsers(h) ==
    IF h = <<>> THEN <<>>
    ELSE LET c == h[Len(h)]
             before == SerialParsers(SubSeq(h, 1, Len(h) - 1))
             entry == [name |-> c.name, root |-> loadProto(c.content)]
         IN  IF \E i \in 1..Len(before) : before[i].name = c.name
             THEN [i \in 1..Len(before) |->
                      IF before[i].name = c.name THEN entry ELSE before[i]]
             ELSE before \o <<entry>>

RECURSIVE SerialDefinitions(_)
SerialDefinitions(h) ==
    IF h = <<>> THEN <<>>
    ELSE LET c == h[Len(h)]
             before == SerialDefinitions(SubSeq(h, 1, Len(h) - 1))
             entry == [name |-> c.name, content |-> c.content,
                       messageTypes |-> extractMessageTypes(c.content)]
         IN  IF \E i \in 1..Len(before) : before[i].name = c.name
             THEN [i \in 1..Len(before) |->
                      IF before[i].name = c.name THEN entry ELSE before[i]]
             ELSE before \o <<entry>>

\* C11: tryParse is deterministic: its result is fixed by the bytes, the
\* domain hint and the sequence of registerProto calls that registered the
\* schemas, however those calls overlapped one another or the tryParse calls.
C11_SameCallsSameResult ==
    lastParse.outcome.kind # "none" =>
        lastParse.outcome = tryParse(SerialParsers(CompletedCalls),
                                     SerialDefinitions(CompletedCalls),
                                     lastParse.buffer, lastParse.domain)

\* tryParse found a match in the schema of the first registerProto call
\* while a second call, under another name, was waiting at its await.
C11_Witness ==
    /\ Len(registerCalls) = 2
    /\ Len(pendingRegs) = 1
    /\ registerCalls[1].name # registerCalls[2].name
    /\ lastParse.outcome.kind = "resolved"
    /\ lastParse.outcome.success

\* The last call of CompletedCalls under a name.
LatestCall(name) ==
    LET at == {i \in 1..Len(CompletedCalls) : CompletedCalls[i].name = name}
    IN  CompletedCalls[CHOOSE i \in at : \A j \in at : j <= i]

\* C12: registerProto is last write wins per name and replaces atomically:
\* in every state both maps hold the same names, each once, each name's
\* definition has the content and the message types of the latest completed
\* registration under it, and its parser is the one loaded from that content.
C12_LastWriteWins ==
    /\ Len(parsers) = Len(protoDefinitions)
    /\ \A i \in 1..Len(parsers) : parsers[i].name = protoDefinitions[i].name
    /\ \A i, j \in 1..Len(protoDefinitions) :
          protoDefinitions[i].name = protoDefinitions[j].name => i = j
    /\ {protoDefinitions[i].name : i \in 1..Len(protoDefinitions)}
          = {CompletedCalls[i].name : i \in 1..Len(CompletedCalls)}
    /\ \A i \in 1..Len(protoDefinitions) :
          LET d == protoDefinitions[i]
          IN  /\ d.content = LatestCall(d.name).content
              /\ d.messageTypes = extractMessageTypes(d.content)
              /\ parsers[i].root = loadProto(d.content)

\* A name was registered twice, with different texts.
C12_Witness ==
    /\ Len(CompletedCalls) = 2
    /\ CompletedCalls[1].name = CompletedCalls[2].name
    /\ CompletedCalls[1].content # CompletedCalls[2].content
    /\ Len(protoDefinitions) = 1

\* ---- EventFilter and EventSearch

\* The event carries what a field of the options asks for.
MatchesSources(event, options) ==
    /\ Get(event, "source").t = "string"
    /\ \E i \in 1..Len(options.sources.v) : options.sources.v[i] = Get(event, "source").s

MatchesUrlPattern(event, options) ==
    /\ Get(event, "url").t = "string"
    /\ ~RegExpThrows(options.urlPattern)
    /\ RegExpTest(options.urlPattern, Get(event, "url").s)

MatchesMethod(event, options) ==
    /\ Get(event, "method").t = "string"
    /\ toUpperCase(Chars(Get(event, "method").s)) = toUpperCase(Chars(options.method))

MatchesStatusCode(event, options) ==
    LET status == Get(event, "status")
        code == options.statusCode
    IN  /\ status.t = "number"
        /\ IF code.kind = "number" THEN status.n = code.n
           ELSE /\ code.hasMin => status.n >= code.min
                /\ code.hasMax => status.n <= code.max

MatchesTimeRange(event, options) ==
    /\ Get(event, "timestamp").t = "number"
    /\ Get(event, "timestamp").n >= options.timeRange.start
    /\ Get(event, "timestamp").n <= options.timeRange.end

MatchesKeyword(event, options) ==
    includes(toLowerCase(Stringify(OrElse(Get(event, "data"), event))),
             toLowerCase(Chars(options.keyword)))

MatchesContentType(event, options) ==
    \E key \in {"content-type", "Content-Type"}, holder \in {"headers", "responseHeaders"} :
        LET value == Get(Get(Get(event, "data"), holder), key)
        IN  value.t = "string" /\ includes(Chars(value.s), Chars(options.contentType))

MatchesEveryField(event, options) ==
    /\ options.sources.present => MatchesSources(event, options)
    /\ options.urlPattern # "" => MatchesUrlPattern(event, options)
    /\ options.method # "" => MatchesMethod(event, options)
    /\ options.statusCode.kind # "absent" => MatchesStatusCode(event, options)
    /\ options.timeRange.present => MatchesTimeRange(event, options)
    /\ options.keyword # "" => MatchesKeyword(event, options)
    /\ options.contentType # "" => MatchesContentType(event, options)

\* C13: EventFilter.filter returns exactly the events that match every field
\* present in the options, in their order; so with {method: "POST"} only
\* events tagged with the method POST.
C13_ExactlyTheMatching ==
    (lastQuery.op = "filter" /\ lastQuery.out.kind = "returned") =>
        lastQuery.out.value =
            SelectSeq(queryEvents, LAMBDA e : MatchesEveryField(e, lastQuery.options))

\* a is b with some of its elements left out.
RECURSIVE IsSubsequence(_, _)
IsSubsequence(a, b) ==
    IF a = <<>> THEN TRUE
    ELSE IF b = <<>> THEN FALSE
    ELSE IF Head(a) = Head(b) THEN IsSubsequence(Tail(a), Tail(b))
    ELSE IsSubsequence(a, Tail(b))

\* C14: what filter, fullTextSearch, pathSearch and fuzzySearch return is a
\* subsequence of the events given: input events only, none more often than
\* given, in their original relative order.
C14_OutputIsSubsequence ==
    (lastQuery.op # "none" /\ lastQuery.out.kind = "returned") =>
        IsSubsequence(lastQuery.out.value, queryEvents)

\* fuzzySearch over two different events left out the first and kept the
\* second.
C14_Witness ==
    /\ lastQuery.op = "fuzzySearch"
    /\ Len(queryEvents) = 2
    /\ queryEvents[1] # queryEvents[2]
    /\ lastQuery.out = Returned(<<queryEvents[2]>>)

\* C15: fullTextSearch with a query that is empty or only white space
\* returns all the events given, unchanged and in the same order.
C15_BlankQueryReturnsAll ==
    (/\ lastQuery.op = "fullTextSearch"
     /\ \A i \in 1..Len(Chars(lastQuery.text)) : Chars(lastQuery.text)[i] = " ")
        => lastQuery.out = Returned(queryEvents)

\* fullTextSearch was called with a single space over two events.
C15_Witness ==
    /\ lastQuery.op = "fullTextSearch"
    /\ lastQuery.text = " "
    /\ Len(queryEvents) = 2
    /\ Len(lastQuery.out.value) = 2

\* ---- failures, a full log, ids, completion order

\* C16: a fetch call whose original fetch failed or was aborted is observed
\* as one error-terminal event and is not driven again: the original fetch was
\* called once, the caller receives the original error, and the recorder of
\* AdvancedFetchHook has taken one event for the request.
C16_FailureIsOneErrorEvent ==
    \A i \in 1..Len(slots) :
        LET s == slots[i] IN
        (IsFetch(s) /\ s.orig.kind = "rejected") =>
            /\ s.origCalls = 1
            /\ s.outcome = s.orig
            /\ s.kind = "advanced" =>
                  /\ s.recs = 1
                  /\ \E k \in 1..Len(arrivals["fetch"]) : arrivals["fetch"][k] = s.ev

\* What the caller of a wrapped primitive gets when the hook's bookkeeping
\* stays out of the way: the response of the original fetch once its body was
\* read, the completed XMLHttpRequest, the original send called for every
\* payload that was logged.
CompletesForCaller(s) ==
    CASE s.kind = "advanced" ->
            (s.st = "done" /\ s.orig.kind = "resolved" /\ ~s.readFailed) =>
                (s.outcome = s.orig /\ s.recs = 1)
      [] s.kind = "xhr" ->
            s.st = "done" => (s.resp # NoResponse /\ s.origCalls = s.cycles /\ s.recs >= 1)
      [] s.kind = "ws" ->
            s.origCalls = Cardinality({k \in 1..Len(s.posted) : s.posted[k].data.type = "send"})
      [] OTHER -> TRUE

\* C17: a full log never stalls or rejects a network operation.  Every event
\* handed to recordEvent is accepted, the oldest ones making room, so that
\* the log holds the most recent events up to its capacity; and every wrapped
\* call completes for its caller, whether the log started empty or full.
C17_FullLogNeverRejects ==
    /\ \A h \in Recorders : events[h] = LastK(arrivals[h], Capacity(h))
    /\ \A i \in 1..Len(slots) : CompletesForCaller(slots[i])

\* The fetch log started full; a wrapped fetch call resolved with the
\* original's response, and its event took the place of the oldest one.
C17_Witness ==
    /\ Len(arrivals["fetch"]) = FetchMaxEvents + 1
    /\ Len(events["fetch"]) = FetchMaxEvents
    /\ \E i \in 1..Len(slots) :
          /\ slots[i].kind = "advanced"
          /\ slots[i].outcome.kind = "resolved"
          /\ events["fetch"][FetchMaxEvents] = slots[i].ev
    /\ events["fetch"][1] # 1

\* C18: every id assigned to a stored event is strictly greater than every
\* id assigned before it, so none is assigned twice; the events of one
\* storeEvents batch included.
C18_IdsStrictlyIncrease ==
    \A i, j \in 1..Len(assignedIds) :
        i < j => IdLess(assignedIds[i], assignedIds[j])

\* The recorder a wrapper of this kind records to.
HookOf(kind) == IF kind = "advanced" THEN "fetch" ELSE kind

\* C19: events are appended in completion order, not send order.  Whenever a
\* request completes and is recorded, its event goes to the end of its
\* recorder's log, behind every event recorded before it, whichever of the
\* requests was sent first.
C19_CompletionOrder ==
    [][\A i \in 1..Len(slots) :
          (/\ slots[i].kind \in {"advanced", "xhr"}
           /\ slots[i].st # "done"
           /\ slots'[i].st = "done"
           /\ slots'[i].recs > 0)
          => LET h == HookOf(slots[i].kind)
                 n == Len(events'[h])
                 k == IF slots'[i].recs < n THEN slots'[i].recs ELSE n
             IN  /\ n >= 1
                 /\ \A a \in (n - k + 1)..n : events'[h][a] = slots'[i].ev
                 /\ SubSeq(events'[h], 1, n - k) = LastK(events[h], n - k)
      ]_vars

\* Two fetch calls were in flight together; the one made second completed
\* first, and its event stands before the other's in the log.
C19_Witness ==
    /\ Len(slots) = 2
    /\ slots[1].kind = "advanced" /\ slots[2].kind = "advanced"
    /\ slots[1].st = "done" /\ slots[2].st = "done"
    /\ slots[1].recs = 1 /\ slots[2].recs = 1
    /\ slots[1].ev < slots[2].ev
    /\ events["fetch"] = <<slots[2].ev, slots[1].ev>>

\* ---- the cleanup functions of hookXHR, hookFetch and hookWebSocket

\* C20: once the cleanup function of every installed hook has been called, in
\* the order the hooks were installed (the order hookAll returns them in),
\* XMLHttpRequest, fetch and WebSocket are the originals again, also when two
\* hooks were installed on one of them.
C20_CleanupsRestoreOriginals ==
    (hooks # <<>> /\ cleanupCalls = [k \in 1..Len(hooks) |-> k]) =>
        \A p \in Primitives : window[p] = Native

\* ---- capacity and eviction

\* C21: under any interleaving of recordEvent, clearEvents and getEvents no
\* recorder ever holds more events than its capacity, and a recordEvent call
\* on a recorder at capacity removes the oldest entry and no other: the log
\* becomes the old one without its first entry, followed by the new event.
C21_CapacityOldestFirst ==
    /\ [](\A h \in Recorders : Len(events[h]) <= Capacity(h))
    /\ [][\A h \in Recorders :
             (Len(heap'[h]) = Len(heap[h]) + 1) =>
                 events'[h] = (IF Len(events[h]) >= Capacity(h)
                               THEN Tail(events[h]) ELSE events[h])
                              \o <<Len(heap'[h])>>
         ]_vars

\* The WebSocket recorder was at capacity (after a clearEvents) when one more
\* event arrived, and holds all but the oldest of them.
C21_Witness ==
    /\ Len(heap["ws"]) > Len(arrivals["ws"])
    /\ Len(arrivals["ws"]) = WsMaxEvents + 1
    /\ events["ws"] = Tail(arrivals["ws"])

\* C22: the wrapped fetch hands the response to its caller without waiting
\* for the duplicate's body: as soon as the original fetch has resolved, the
\* caller holds the original's response, whether or not the body of the
\* duplicate has been read.
C22_ResponseNotHeldBack ==
    \A i \in 1..Len(slots) :
        (IsFetch(slots[i]) /\ slots[i].orig.kind = "resolved") =>
            slots[i].outcome = slots[i].orig

\* ---- the wrapped WebSocket

\* C23: a payload the hook cannot decode or parse for its log never aborts
\* the send: nothing is thrown to the caller of ws.send, and the original send
\* has been called once for every call of the wrapped one.
C23_SendSurvivesDecodeFailure ==
    \A i \in 1..Len(slots) :
        slots[i].kind = "ws" =>
            /\ ~slots[i].threw
            /\ slots[i].origCalls = slots[i].cycles

\* ---- HookManager

\* C24: after any sequence of install() and uninstall() calls every transport
\* primitive carries at most one wrapper layer, and exactly one while the
\* hooks count as installed.
C24_WrappedExactlyOnce ==
    \A t \in Recorders :
        /\ wrapDepth[t] <= 1
        /\ isInstalled => wrapDepth[t] = 1

\* ---- terminal events

\* How often reference r stands in the sequence.
Occurrences(seq, r) == Cardinality({k \in 1..Len(seq) : seq[k] = r})

\* C25: an event that has been recorded is terminal: nothing that happens to
\* its XMLHttpRequest object afterwards changes a field of the recorded event
\* or records it again.
C25_TerminalEventFrozen ==
    [][\A r \in 1..Len(heap["xhr"]) :
          Occurrences(arrivals["xhr"], r) > 0 =>
              /\ heap'["xhr"][r] = heap["xhr"][r]
              /\ Occurrences(arrivals'["xhr"], r) = Occurrences(arrivals["xhr"], r)
      ]_vars

\* C26: getActiveConnections() is the number of wrapped WebSockets that have
\* opened and have neither closed nor errored; a socket that was constructed
\* but has not opened, or that errored, does not count.
C26_ActiveAreOpenSockets ==
    getActiveConnections =
        Cardinality({i \in 1..Len(slots) :
                        /\ slots[i].kind = "ws"
                        /\ slots[i].st = "open"
                        /\ ~slots[i].errored})

\* ---- UniversalProtobufParser: the domain hint

\* The name contains the hint, letter case ignored.
ContainsHint(name, hint) ==
    \E off \in 0..(Len(name) - Len(hint)) :
        \A j \in 1..Len(hint) : LowerChar(name[off + j]) = LowerChar(hint[j])

\* A registered schema one of whose message types decodes the buffer.
Decodes(d, buf) ==
    /\ MapHas(parsers, d.name)
    /\ \E k \in 1..Len(d.messageTypes) :
          decodeMessage(MapGet(parsers, d.name).root, d.messageTypes[k], buf).ok

\* C27: with a domain hint tryParse tries only the schemas whose name contains
\* the hint, letter case ignored, and with no hint all of them: the call
\* succeeds exactly when such a schema decodes the buffer, a successful
\* result names a schema that contains the hint, and when no registered name
\* contains the hint the result is {success: false}.
C27_HintSelectsCandidates ==
    lastParse.outcome.kind = "resolved" =>
        LET hint == lastParse.domain
            tried == {i \in 1..Len(protoDefinitions) :
                         hint = <<>> \/ ContainsHint(protoDefinitions[i].name, hint)}
        IN  /\ lastParse.outcome.success <=>
                  \E i \in tried : Decodes(protoDefinitions[i], lastParse.buffer)
            /\ lastParse.outcome.success =>
                  (hint = <<>> \/ ContainsHint(lastParse.outcome.protoName, hint))
            /\ tried = {} => lastParse.outcome = ParseMiss

\* Two schemas are registered and the first would decode the buffer; the hint
\* "DEM" made tryParse pass it over and answer with the schema named "demo".
C27_Witness ==
    /\ Len(protoDefinitions) = 2
    /\ lastParse.domain = <<"D", "E", "M">>
    /\ lastParse.outcome.success
    /\ lastParse.outcome.protoName = <<"d", "e", "m", "o">>
    /\ protoDefinitions[1].name = <<"S", "h", "o", "p">>
    /\ Decodes(protoDefinitions[1], lastParse.buffer)

\* ---- UniversalProtobufParser: texts that do not parse, texts without messages

\* C28: a registerProto call whose text cannot be parsed rejects, and leaves
\* the registry as it was: the registered names and the definitions and
\* parsers under them, which are all that tryParse reads, and the calls still
\* waiting to complete.
C28_FailedRegistrationChangesNothing ==
    [][(registrations' = registrations + 1 /\ registerCalls' = registerCalls) =>
          /\ registerRejected'
          /\ parsers' = parsers
          /\ protoDefinitions' = protoDefinitions
          /\ pendingRegs' = pendingRegs
      ]_vars

\* A schema was registered, a second registerProto call was rejected, and a
\* tryParse after it still decodes with the schema.
C28_Witness ==
    /\ registerRejected
    /\ registrations = 2
    /\ Len(protoDefinitions) = 1
    /\ lastParse.outcome.kind = "resolved"
    /\ lastParse.outcome.success

\* The message declarations of a text in source order, each under the package
\* declared before it.
RECURSIVE DeclaredNames(_, _)
DeclaredNames(items, pkg) ==
    IF items = <<>> THEN <<>>
    ELSE LET it == Head(items)
         IN  CASE it.k = "package" -> DeclaredNames(Tail(items), it.name)
               [] it.k = "message" ->
                     <<IF pkg = "" THEN it.name ELSE pkg \o "." \o it.name>>
                     \o DeclaredNames(Tail(items), pkg)
               [] OTHER -> DeclaredNames(Tail(items), pkg)

\* C29: the message types of a registered definition are one fully-qualified
\* name per message declaration of its text, in source order, each qualified
\* by the package declared before it, or bare when none was.
C29_OneNamePerDeclaration ==
    \A i \in 1..Len(protoDefinitions) :
        protoDefinitions[i].messageTypes
            = DeclaredNames(Flatten(protoDefinitions[i].content), "")

\* C30: a definition that protobuf.parse accepts and in which no message
\* declaration is recognized registers without rejecting; once its call has
\* run to its end and while no later call has replaced it, its name is among
\* getRegisteredProtos(), its type list is empty, and no tryParse result
\* reports success under its name.
C30_EmptySchemaNeverMatches ==
    /\ [](\A i \in 1..Len(CompletedCalls) :
            LET c == CompletedCalls[i]
            IN  (extractMessageTypes(c.content) = <<>> /\ LatestCall(c.name) = c)
                => /\ \E k \in 1..Len(getRegisteredProtos) :
                          getRegisteredProtos[k] = c.name
                   /\ MapGet(protoDefinitions, c.name).messageTypes = <<>>
                   /\ ~(/\ lastParse.outcome.kind = "resolved"
                        /\ lastParse.outcome.success
                        /\ lastParse.outcome.protoName = c.name))
    /\ [][(/\ Len(registerCalls') = Len(registerCalls) + 1
            /\ extractMessageTypes(registerCalls'[Len(registerCalls')].content) = <<>>)
           => /\ ~registerRejected'
              /\ Len(pendingRegs') = Len(pendingRegs) + 1]_vars

\* A schema without message types is registered first, a schema that decodes
\* the buffer after it, and tryParse has succeeded under the second name.
C30_Witness ==
    /\ Len(protoDefinitions) = 2
    /\ pendingRegs = <<>>
    /\ protoDefinitions[1].content = ProtoEmpty
    /\ protoDefinitions[1].messageTypes = <<>>
    /\ getRegisteredProtos[1] = <<"d", "e", "m", "o">>
    /\ lastParse.domain = <<>>
    /\ lastParse.outcome.kind = "resolved"
    /\ lastParse.outcome.success
    /\ lastParse.outcome.protoName = getRegisteredProtos[2]

\* ---- EventSearch: tokens, depth, transparency

\* The tokens of a query: its longest runs of characters without white space.
Tokens(str) ==
    { SubSeq(str, i, j) : <<i, j>> \in
        { p \in (1..Len(str)) \X (1..Len(str)) :
            /\ p[1] <= p[2]
            /\ \A k \in p[1]..p[2] : ~IsSpace(str[k])
            /\ p[1] = 1 \/ IsSpace(str[p[1] - 1])
            /\ p[2] = Len(str) \/ IsSpace(str[p[2] + 1]) } }

\* The string, number and boolean values of an event at most five steps below
\* it, each as its text.
RECURSIVE LeafTexts(_, _)
LeafTexts(v, steps) ==
    IF steps > 5 THEN {}
    ELSE CASE v.t = "string" -> {Chars(v.s)}
           [] v.t = "number" -> {NumberChars(v.n)}
           [] v.t = "boolean" -> {Chars(IF v.n = 1 THEN "true" ELSE "false")}
           [] v.t \in {"null", "undefined"} -> {}
           [] OTHER -> UNION { LeafTexts(Resolve(v).kids[i].v, steps + 1) :
                                i \in 1..Len(Resolve(v).kids) }

\* C31: for a query that is not empty, fullTextSearch returns exactly the
\* events, in their order, in which every token of the query occurs, letter
\* case ignored, inside one of the event's string, number or boolean values
\* within the depth bound.
C31_EveryTokenOccurs ==
    (lastQuery.op = "fullTextSearch" /\ lastQuery.text # "")
    => lastQuery.out = Returned(SelectSeq(queryEvents, LAMBDA event :
           \A token \in Tokens(Chars(lastQuery.text)) :
               \E leaf \in LeafTexts(event, 0) :
                   includes(toUpperCase(leaf), toUpperCase(token))))

\* Of two events holding "hello" the query "HELLO 200" keeps the one that
\* also holds 200.
C31_Witness ==
    /\ lastQuery.op = "fullTextSearch"
    /\ lastQuery.text = "HELLO 200"
    /\ queryEvents = <<EvDeep, EvWs>>
    /\ lastQuery.out = Returned(<<EvWs>>)

\* A value with everything more than five steps below it taken away, the
\* objects that hold themselves written out as far as that.
RECURSIVE CutBelow(_, _)
CutBelow(v, steps) ==
    IF steps > 5 THEN JsUndefined
    ELSE IF v.t \in {"object", "array", "ref"}
    THEN LET o == Resolve(v)
         IN  [o EXCEPT !.kids = [i \in 1..Len(o.kids) |->
                                   Prop(o.kids[i].k, CutBelow(o.kids[i].v, steps + 1))]]
    ELSE v

\* The text of all the values of a finite value, however deep.
RECURSIVE WholeText(_)
WholeText(v) ==
    CASE v.t \in {"null", "undefined"} -> <<>>
      [] v.t = "string" -> toLowerCase(Chars(v.s))
      [] v.t = "number" -> NumberChars(v.n)
      [] v.t = "boolean" -> Chars(IF v.n = 1 THEN "true" ELSE "false")
      [] OTHER -> join([i \in 1..Len(v.kids) |-> WholeText(v.kids[i].v)], <<" ">>)

\* C32: fullTextSearch returns on every array, the arrays with events that
\* hold themselves included, and what it returns is what the values at most
\* five steps below each event decide: the values at step five are read and
\* nothing below them is.
C32_ReturnsAndStopsAtFive ==
    lastQuery.op = "fullTextSearch"
    => /\ lastQuery.out.kind = "returned"
       /\ lastQuery.out.value = SelectSeq(queryEvents, LAMBDA event :
              \A token \in Tokens(toLowerCase(Chars(lastQuery.text))) :
                  includes(WholeText(CutBelow(event, 0)), token))

\* An event that holds itself and an event with "zzz" six steps down have
\* been searched for "zzz", and the search returned without either.
C32_Witness ==
    /\ lastQuery.op = "fullTextSearch"
    /\ lastQuery.text = "zzz"
    /\ queryEvents = <<EvCircular, EvDeep>>
    /\ IsCircular(queryEvents[1])
    /\ lastQuery.out = Returned(<<>>)

\* The function called and the arguments it was given.
Asked(q) == [op |-> q.op, options |-> q.options, text |-> q.text,
             value |-> q.value, tenths |-> q.tenths]

\* C33: a call of filter, fullTextSearch, pathSearch or fuzzySearch leaves
\* the array it is given, the events in it and all other state as they were,
\* and a call given the arguments of the call before it has the outcome of
\* the call before it.
C33_ReferentiallyTransparent ==
    [][queryCalls' = queryCalls + 1
       => /\ queryEvents' = queryEvents
          /\ outsideQuery' = outsideQuery
          /\ (queryCalls > 0 /\ Asked(lastQuery') = Asked(lastQuery))
             => lastQuery'.out = lastQuery.out]_vars

\* A second call has been made on an array of two events, and it kept one.
C33_Witness ==
    /\ queryCalls = 2
    /\ Len(queryEvents) = 2
    /\ lastQuery.op = "filter"
    /\ lastQuery.options.method = "POST"
    /\ lastQuery.out.kind = "returned"
    /\ Len(lastQuery.out.value) = 1

\* ---- interceptors

\* C34: a send on a wrapped WebSocket while an interceptor that resolves to
\* true is registered is blocked, neither recorded nor notified nor passed
\* to the original send; a send while none is registered is recorded,
\* notified and passed to the original send once.
C34_InterceptedIsBlocked ==
    [][\A i \in 1..Len(slots) :
          (slots[i].kind = "ws" /\ slots'[i].cycles = slots[i].cycles + 1)
          => IF \E j \in 1..Len(messageInterceptors) : messageInterceptors[j]
             THEN /\ slots'[i].origCalls = slots[i].origCalls
                  /\ slots'[i].recs = slots[i].recs
                  /\ slots'[i].posted = slots[i].posted
                  /\ events' = events
             ELSE /\ slots'[i].origCalls = slots[i].origCalls + 1
                  /\ slots'[i].recs = slots[i].recs + 1
                  /\ Len(slots'[i].posted) = Len(slots[i].posted) + 1]_vars

RECURSIVE InFlight(_, _)
InFlight(fs, e) ==
    IF fs = <<>> THEN 0
    ELSE (IF Head(fs).arrived THEN 0 ELSE Occurrences(Head(fs).events, e))
         + InFlight(Tail(fs), e)

\* C36: every event the listener accepted is at all times in exactly one
\* place, the buffer, one batch on its way or the events handed to the
\* background, and is handed to the background at most once.
C36_NeitherLostNorDuplicated ==
    \A e \in 1..accepted :
        /\ Occurrences(eventBuffer, e) + InFlight(flights, e)
              + Occurrences(delivered, e) = 1
        /\ Occurrences(delivered, e) <= 1

\* C37: the background is handed the events in the order the listener
\* received them: when it is handed an event it has been handed every event
\* received before that one.
C37_DeliveredInOrderReceived ==
    \A q \in 1..Len(delivered) : \A d \in 1..(delivered[q] - 1) :
        \E p \in 1..(q - 1) : delivered[p] = d

\* ---- HookStorage: calls that overlap

\* C38: storeEvents calls that overlap lose no event: the list a call writes
\* is its own events merged with the list as it stands when the call writes,
\* newest first and cut to maxEvents, so that once the calls have completed
\* the list holds the events of every batch, or the maxEvents most recent.
C38_OverlappingCallsLoseNothing ==
    [][\A i \in 1..Len(storeCalls) :
          (storeCalls[i].st = "set" /\ storeCalls'[i].st = "done")
          => hookEvents' = Slice(SortNewestFirst(<<>>,
                                     storeCalls[i].storedEvents \o hookEvents),
                                 StorageMaxEvents)]_vars

\* ---- MessageQueue

\* C39: MessageQueue sends one message at a time and in the order enqueued: a
\* message is handed to MessageClient.send only when the send of every message
\* enqueued before it has settled; the promise of each enqueue settles as the
\* send of its own message did; and, every send settling, every message
\* enqueued is sent in the end.
C39_OneAtATimeInOrder ==
    /\ [](/\ \A k \in 1..Len(sendLog) :
               /\ sendLog[k].m = k
               /\ k < Len(sendLog) => sendLog[k].outcome # "pending"
               /\ promises[k] = sendLog[k].outcome
           /\ \A m \in (Len(sendLog) + 1)..Len(promises) : promises[m] = "pending"
           /\ processing <=> (sendLog # <<>> /\ sendLog[Len(sendLog)].outcome = "pending"))
    /\ \A m \in 1..MaxEnqueued : (Len(promises) >= m) ~> (Len(sendLog) >= m)

\* Three messages were enqueued while the first was being sent; the second
\* send was rejected and the third is under way.
C39_Witness ==
    /\ Len(promises) = 3
    /\ Len(sendLog) = 3
    /\ promises[1] = "resolved"
    /\ promises[2] = "rejected"
    /\ promises[3] = "pending"
    /\ processing

\* ---- NativeMessagingClient

\* C40: once the port is gone, by its disconnect event with or without an
\* error or by disconnect(), no send() promise is pending and the list of
\* requests waiting is empty; and a send() made without a port is rejected
\* and leaves that list as it was.
C40_NothingPendingWithoutPort ==
    /\ [](port = "null"
          => /\ messageQueue = <<>>
             /\ \A k \in 1..Len(sendPromises) : sendPromises[k].status # "pending")
    /\ [][(port = "null" /\ Len(sendPromises') = Len(sendPromises) + 1)
          => /\ sendPromises'[Len(sendPromises')].status = "rejected"
             /\ messageQueue' = messageQueue]_vars

====
